---- MODULE Spec2Model ----
(***************************************************************************)
(* Topology verifier of PCBSchemaGen (src/task/topo, src/task/run.py).     *)
(*                                                                         *)
(* A snapshot is [components, nets]; a component is                        *)
(* [ref, part_id, category, pins]; a pin is                                *)
(* [pin_id, pin_name, net, pin_role]; a net is [name, endpoints]; an       *)
(* endpoint is [ref, pin_id, pin_name, pin_role, component_category].      *)
(* Python's None is NULL; dict.get of a key that is absent is NULL too.    *)
(* Error messages are the strings the code formats.                        *)
(***************************************************************************)
EXTENDS Integers, Sequences, FiniteSets, TLC

VARIABLES
    kg,        \* the KGStore (kg_component_map, component_map)
    std,       \* the reference snapshot (NULL when the pipeline has none)
    gen,       \* the candidate snapshot
    task,      \* the task identifier (NULL when none is passed)
    pc,        \* position of the pipeline
    rules,     \* the rules handed to check_rules
    idx,       \* check_rules: index of the next rule
    cache,     \* check_rules: endpoint_cache, the keys resolved so far; or the rule cache files
    errors,    \* the ordered error list of the running verification
    warnings,  \* validate_complex_task: the warnings list
    result,    \* the value returned by the operation that ran last
    stage      \* what each stage of validate_complex_task returned

vars == <<kg, std, gen, task, pc, rules, idx, cache, errors, warnings, result, stage>>

------------------------------------------------------------------------------
(* Bounds of the model *)

\* number of net names a pin may be wired to
NumNets == 3

------------------------------------------------------------------------------
(* Python values and strings *)

NULL == "<None>"

\* task_id=None: no task number (tasks are numbered from 1)
NoTask == 0

\* truth value of a string-or-None: None and "" are falsy
Truthy(v) == v # NULL /\ v # ""

\* `v or ""`
OrEmpty(v) == IF Truthy(v) THEN v ELSE ""

\* `p in s` for strings
Contains(s, p) ==
    \E i \in 1..(Len(s) - Len(p) + 1) : SubSeq(s, i, i + Len(p) - 1) = p

\* s.startswith(p)
StartsWith(s, p) == Len(s) >= Len(p) /\ SubSeq(s, 1, Len(p)) = p

LowerToUpper ==
    [c \in {"a","b","c","d","e","f","g","h","i","j","k","l","m","n","o","p",
            "q","r","s","t","u","v","w","x","y","z"} |->
        CASE c = "a" -> "A" [] c = "b" -> "B" [] c = "c" -> "C" [] c = "d" -> "D"
          [] c = "e" -> "E" [] c = "f" -> "F" [] c = "g" -> "G" [] c = "h" -> "H"
          [] c = "i" -> "I" [] c = "j" -> "J" [] c = "k" -> "K" [] c = "l" -> "L"
          [] c = "m" -> "M" [] c = "n" -> "N" [] c = "o" -> "O" [] c = "p" -> "P"
          [] c = "q" -> "Q" [] c = "r" -> "R" [] c = "s" -> "S" [] c = "t" -> "T"
          [] c = "u" -> "U" [] c = "v" -> "V" [] c = "w" -> "W" [] c = "x" -> "X"
          [] c = "y" -> "Y" [] c = "z" -> "Z"]

UpperChar(c) == IF c \in DOMAIN LowerToUpper THEN LowerToUpper[c] ELSE c

\* s.upper()
RECURSIVE Upper(_)
Upper(s) ==
    IF Len(s) = 0 THEN ""
    ELSE UpperChar(SubSeq(s, 1, 1)) \o Upper(SubSeq(s, 2, Len(s)))

\* s.strip()
RECURSIVE Strip(_)
Strip(s) ==
    IF Len(s) = 0 THEN s
    ELSE IF SubSeq(s, 1, 1) = " " THEN Strip(SubSeq(s, 2, Len(s)))
    ELSE IF SubSeq(s, Len(s), Len(s)) = " " THEN Strip(SubSeq(s, 1, Len(s) - 1))
    ELSE s

Digits == {"0","1","2","3","4","5","6","7","8","9"}

\* s.isdigit()
IsDigit(s) == Len(s) > 0 /\ \A i \in 1..Len(s) : SubSeq(s, i, i) \in Digits

\* the elements of a sequence
Range(seq) == {seq[i] : i \in DOMAIN seq}

\* the one element of a singleton set; Only({e(x) : x \in {v}}) is e(v) with
\* v computed once
Only(S) == CHOOSE x \in S : TRUE

\* sequence filter keeping order
RECURSIVE SelectSeqBy(_, _)
SelectSeqBy(seq, keep) ==
    IF seq = <<>> THEN <<>>
    ELSE (IF Head(seq) \in keep THEN <<Head(seq)>> ELSE <<>>) \o SelectSeqBy(Tail(seq), keep)

\* concatenation of a sequence of sequences
RECURSIVE Flatten(_)
Flatten(ss) == IF ss = <<>> THEN <<>> ELSE Head(ss) \o Flatten(Tail(ss))

\* the characters of the model's strings in code point order
CodeChars == " +-/0123456789ABCDEFGHIJKLMNOPQRSTUVWXYZ_abcdefghijklmnopqrstuvwxyz{}~"

Code(c) == CHOOSE i \in 1..Len(CodeChars) : SubSeq(CodeChars, i, i) = c

\* a < b for Python strings (code point order)
RECURSIVE StrLess(_, _)
StrLess(a, b) ==
    IF Len(b) = 0 THEN FALSE
    ELSE IF Len(a) = 0 THEN TRUE
    ELSE IF SubSeq(a, 1, 1) = SubSeq(b, 1, 1)
         THEN StrLess(SubSeq(a, 2, Len(a)), SubSeq(b, 2, Len(b)))
         ELSE Code(SubSeq(a, 1, 1)) < Code(SubSeq(b, 1, 1))

\* sorted(S) for a set of strings
RECURSIVE Sorted(_)
Sorted(S) ==
    IF S = {} THEN <<>>
    ELSE LET m == CHOOSE x \in S : \A y \in S \ {x} : StrLess(x, y)
         IN <<m>> \o Sorted(S \ {m})

\* every order in which a Python set may be iterated
RECURSIVE SetOrderings(_)
SetOrderings(S) ==
    IF S = {} THEN {<<>>}
    ELSE UNION {{<<x>> \o t : t \in SetOrderings(S \ {x})} : x \in S}

\* repr of a list of strings: ['a', 'b']
RECURSIVE JoinQuoted(_)
JoinQuoted(seq) ==
    IF seq = <<>> THEN ""
    ELSE "'" \o Head(seq) \o "'" \o (IF Len(seq) > 1 THEN ", " ELSE "") \o JoinQuoted(Tail(seq))

ListRepr(seq) == "[" \o JoinQuoted(seq) \o "]"

DigitValue(c) == Code(c) - Code("0")

RECURSIVE DecimalValue(_, _)
DecimalValue(s, acc) ==
    IF Len(s) = 0 THEN acc
    ELSE DecimalValue(SubSeq(s, 2, Len(s)), 10 * acc + DigitValue(SubSeq(s, 1, 1)))

\* int(s) succeeds: optional blanks around an optionally signed digit string
Unsigned(s) ==
    LET t == Strip(s)
    IN IF Len(t) > 0 /\ SubSeq(t, 1, 1) \in {"+", "-"} THEN SubSeq(t, 2, Len(t)) ELSE t

IntParses(s) == s # NULL /\ IsDigit(Unsigned(s))

\* int(s) when it succeeds
IntOf(s) ==
    IF SubSeq(Strip(s), 1, 1) = "-" THEN 0 - DecimalValue(Unsigned(s), 0)
    ELSE DecimalValue(Unsigned(s), 0)

------------------------------------------------------------------------------
(* kg_loader.py: the knowledge graph store *)

\* a KG pin list: JSON numbers and JSON strings are different Python values
PinList(ints, strs) == [ints |-> ints, strs |-> strs]

KGEntry(cat, roles, iso, pri, sec) ==
    [category |-> cat, pin_roles |-> roles, generic_constraints |-> <<>>,
     isolation_boundary |-> iso, primary_pins |-> pri, secondary_pins |-> sec]

NoRoles == [k \in {} |-> NULL]

PlainEntry(cat, roles) == KGEntry(cat, roles, FALSE, PinList({}, {}), PinList({}, {}))

\* base table (component.json): categories only
BaseTable ==
    [p \in {"R", "C", "L", "OPA328"} |->
        PlainEntry(IF p = "OPA328" THEN "opamp" ELSE "passive", NoRoles)]

\* overlay (kg_component.json) with pin roles keyed by pin number and
\* isolation pin lists given as JSON numbers
KGByNumber ==
    [kg_component_map |->
        [p \in {"MGJ2D121505SC", "UCC5390E", "BSC052N08NS5", "OPA328"} |->
            CASE p = "MGJ2D121505SC" ->
                   KGEntry("isolated_supply",
                           ("1" :> "primary_vdd" @@ "2" :> "primary_gnd" @@
                            "6" :> "secondary_gnd" @@ "7" :> "secondary_vdd"),
                           TRUE, PinList({1, 2}, {}), PinList({5, 6, 7}, {}))
              [] p = "UCC5390E" ->
                   KGEntry("ic",
                           ("1" :> "primary_vdd" @@ "4" :> "primary_gnd" @@
                            "5" :> "secondary_vdd" @@ "6" :> "out" @@
                            "8" :> "secondary_gnd"),
                           TRUE, PinList({1, 2, 3, 4}, {}), PinList({5, 6, 7, 8}, {}))
              [] p = "BSC052N08NS5" ->
                   PlainEntry("MOSFET",
                              ("1" :> "mosfet_source" @@ "4" :> "mosfet_gate" @@
                               "5" :> "mosfet_drain"))
              [] p = "OPA328" ->
                   PlainEntry(NULL, ("1" :> "out" @@ "3" :> "in_plus" @@ "4" :> "in_minus"))],
     component_map |-> BaseTable]

\* overlay with pin roles keyed by pin name and isolation pin lists given as
\* JSON strings
KGByName ==
    [kg_component_map |->
        [p \in {"MGJ2D121505SC", "UCC5390E", "BSC052N08NS5"} |->
            CASE p = "MGJ2D121505SC" ->
                   KGEntry("isolated_supply",
                           ("+VIN" :> "primary_vdd" @@ "-VIN" :> "primary_gnd" @@
                            "0V" :> "secondary_gnd" @@ "+VOUT" :> "secondary_vdd"),
                           TRUE, PinList({}, {"+VIN", "-VIN"}),
                           PinList({}, {"-VOUT", "0V", "+VOUT"}))
              [] p = "UCC5390E" ->
                   KGEntry("ic",
                           ("VCC1" :> "primary_vdd" @@ "GND1" :> "primary_gnd" @@
                            "VCC2" :> "secondary_vdd" @@ "OUT" :> "out" @@
                            "VEE2" :> "secondary_gnd"),
                           TRUE, PinList({}, {"VCC1", "IN+", "IN-", "GND1"}),
                           PinList({}, {"VCC2", "OUT", "CLAMP", "VEE2"}))
              [] p = "BSC052N08NS5" ->
                   PlainEntry("MOSFET",
                              ("S" :> "mosfet_source" @@ "G" :> "mosfet_gate" @@
                               "D" :> "mosfet_drain"))],
     component_map |-> BaseTable]

\* a store whose files are both missing
KGEmpty ==
    [kg_component_map |-> [p \in {} |-> NULL], component_map |-> [p \in {} |-> NULL]]

_normalize_part_id(part_id) == IF ~Truthy(part_id) THEN "" ELSE Strip(part_id)

\* KGStore.get_component: "is not None" and the entry
HasComponent(store, part_id) == _normalize_part_id(part_id) \in DOMAIN store.kg_component_map
get_component(store, part_id) == store.kg_component_map[_normalize_part_id(part_id)]

HasComponentInfo(store, part_id) == _normalize_part_id(part_id) \in DOMAIN store.component_map
get_component_info(store, part_id) == store.component_map[_normalize_part_id(part_id)]

get_category(store, part_id) ==
    IF HasComponent(store, part_id) /\ Truthy(get_component(store, part_id).category)
    THEN get_component(store, part_id).category
    ELSE IF HasComponentInfo(store, part_id)
            /\ Truthy(get_component_info(store, part_id).category)
    THEN get_component_info(store, part_id).category
    ELSE NULL

get_pin_roles(store, part_id) ==
    IF HasComponent(store, part_id)
       /\ DOMAIN get_component(store, part_id).pin_roles # {}
    THEN get_component(store, part_id).pin_roles
    ELSE NoRoles

OneLetterPassives == {"R", "C", "L", "D"}

infer_category(part_id, ref, store) ==
    LET p == _normalize_part_id(part_id)
        category == get_category(store, p)
        ref_prefix == Upper(SubSeq(Strip(OrEmpty(ref)), 1, 1))
    IN  IF Truthy(category) THEN category
        ELSE IF p \in OneLetterPassives THEN "passive"
        ELSE IF ref_prefix \in OneLetterPassives THEN "passive"
        ELSE IF Contains(Upper(p), "MOSFET") \/ ref_prefix = "Q" THEN "MOSFET"
        ELSE "unknown"

------------------------------------------------------------------------------
(* extract_skidl_design.py: the snapshot of a circuit.  A circuit is a      *)
(* sequence of parts [ref, name, pins], a pin [num, name, nets].            *)

PyStr(v) == IF v = NULL THEN "None" ELSE v

_part_id_from_part(part) == IF Truthy(part.name) /\ Strip(part.name) # "" THEN Strip(part.name) ELSE part.ref

\* the pin entries one circuit pin contributes: one per attached net, or one
\* with net None
PinEntries(pin) ==
    LET pin_id == PyStr(IF pin.num = NULL THEN pin.name ELSE pin.num)
        pin_name == IF pin.name # NULL THEN PyStr(pin.name) ELSE ""
    IN  IF pin.nets = <<>>
        THEN << [pin_id |-> pin_id, pin_name |-> pin_name, net |-> NULL, pin_role |-> NULL] >>
        ELSE [k \in DOMAIN pin.nets |->
                [pin_id |-> pin_id, pin_name |-> pin_name, net |-> PyStr(pin.nets[k]),
                 pin_role |-> NULL]]

PartPins(part) == Flatten([j \in DOMAIN part.pins |-> PinEntries(part.pins[j])])

\* a nets_map entry per attachment instead of per name
FirstOccurrences_per_attachment(seq, seen) == seq

\* first occurrences, in order (insertion order of nets_map)
RECURSIVE FirstOccurrences(_, _)
FirstOccurrences(seq, seen) ==
    IF seq = <<>> THEN <<>>
    ELSE IF Head(seq) \in seen THEN FirstOccurrences(Tail(seq), seen)
    ELSE <<Head(seq)>> \o FirstOccurrences(Tail(seq), seen \cup {Head(seq)})

snapshot_from_circuit(circuit) ==
    LET comps == [i \in DOMAIN circuit |->
                    [ref |-> circuit[i].ref, part_id |-> _part_id_from_part(circuit[i]),
                     category |-> NULL, pins |-> PartPins(circuit[i])]]
        \* every connected pin entry, in part and pin order
        attached == Flatten([i \in DOMAIN comps |->
                       LET ps == comps[i].pins
                           eps == [j \in DOMAIN ps |->
                                     [ref |-> comps[i].ref, pin_id |-> ps[j].pin_id,
                                      pin_name |-> ps[j].pin_name, net |-> ps[j].net]]
                       IN SelectSeq(eps, LAMBDA e : e.net # NULL)])
        names == FirstOccurrences([k \in DOMAIN attached |-> attached[k].net], {})
        EndpointsOf(n) ==
            LET on == SelectSeq(attached, LAMBDA e : e.net = n)
            IN [k \in DOMAIN on |->
                  [ref |-> on[k].ref, pin_id |-> on[k].pin_id, pin_name |-> on[k].pin_name,
                   pin_role |-> NULL, component_category |-> NULL]]
    IN  [components |-> comps,
         nets |-> [k \in DOMAIN names |-> [name |-> names[k], endpoints |-> EndpointsOf(names[k])]]]

------------------------------------------------------------------------------
(* build_topology.py: augmentation *)

\* the pins of every component whose ref is `ref`, in list order
PinsOfRef(snapshot, ref) ==
    Flatten([i \in DOMAIN snapshot.components |->
                IF snapshot.components[i].ref # ref THEN <<>>
                ELSE snapshot.components[i].pins])

RECURSIVE FirstMatchingRole(_, _, _)
FirstMatchingRole(pins, pin_id, pin_name) ==
    IF pins = <<>> THEN NULL
    ELSE LET pin == Head(pins) IN
         IF PyStr(pin.pin_id) = pin_id /\ PyStr(pin.pin_name) = pin_name THEN pin.pin_role
         ELSE IF PyStr(pin.pin_id) = pin_id THEN pin.pin_role
         ELSE IF PyStr(pin.pin_name) = pin_name THEN pin.pin_role
         ELSE FirstMatchingRole(Tail(pins), pin_id, pin_name)

_lookup_pin_role(snapshot, ref, pin_id, pin_name) ==
    FirstMatchingRole(PinsOfRef(snapshot, ref), pin_id, pin_name)

_lookup_component_category(snapshot, ref) ==
    LET hits == SelectSeq(snapshot.components, LAMBDA c : c.ref = ref)
    IN IF hits = <<>> THEN NULL ELSE hits[1].category

\* first loop of augment_snapshot: category and pin_role of every component
AugmentComponents(snapshot, store) ==
    [i \in DOMAIN snapshot.components |->
        LET comp == snapshot.components[i]
            pin_roles == get_pin_roles(store, comp.part_id)
            RoleOf(pin) ==
                IF PyStr(pin.pin_id) \in DOMAIN pin_roles THEN pin_roles[PyStr(pin.pin_id)]
                ELSE IF PyStr(pin.pin_name) \in DOMAIN pin_roles
                THEN pin_roles[PyStr(pin.pin_name)]
                ELSE NULL
        IN [comp EXCEPT !.category = infer_category(comp.part_id, comp.ref, store),
                        !.pins = [j \in DOMAIN comp.pins |->
                                    [comp.pins[j] EXCEPT !.pin_role = RoleOf(comp.pins[j])]]]]

\* second loop of augment_snapshot: the endpoints, read from `view`
AugmentNets(snapshot, view) ==
    [k \in DOMAIN snapshot.nets |->
        [snapshot.nets[k] EXCEPT !.endpoints =
            [e \in DOMAIN snapshot.nets[k].endpoints |->
                LET ep == snapshot.nets[k].endpoints[e] IN
                [ep EXCEPT
                    !.pin_role = _lookup_pin_role(view, ep.ref, PyStr(ep.pin_id),
                                                  PyStr(ep.pin_name)),
                    !.component_category = _lookup_component_category(view, ep.ref)]]]]

\* augment_snapshot with its two loops in the other order: the endpoints are
\* filled from the components as they were before this call
augment_snapshot_nets_first(snapshot, store) ==
    LET withComps == [snapshot EXCEPT !.components = AugmentComponents(snapshot, store)]
    IN  [withComps EXCEPT !.nets = AugmentNets(withComps, snapshot)]

augment_snapshot(snapshot, store) ==
    LET withComps == [snapshot EXCEPT !.components = AugmentComponents(snapshot, store)]
    IN  [withComps EXCEPT !.nets = AugmentNets(withComps, withComps)]

------------------------------------------------------------------------------
(* Circuits the model wires: a template lists the parts and their pins, a   *)
(* wiring gives every pin the nets attached to it.                          *)

Part(ref, name, pinList) ==
    [ref |-> ref, name |-> name,
     pins |-> [j \in DOMAIN pinList |-> [num |-> pinList[j][1], name |-> pinList[j][2]]]]

Slots(template) ==
    UNION {{<<i, j>> : j \in DOMAIN template[i].pins} : i \in DOMAIN template}

\* what one pin may be attached to: nothing, or one net of the pool
NetChoices(pool) == {<<>>} \cup {<<n>> : n \in pool}

\* the wirings of a template: the slots of `fixed` are attached as it says,
\* the free ones to any choice over the pool
Wirings(template, fixed, pool) ==
    {w @@ fixed : w \in [Slots(template) \ DOMAIN fixed -> NetChoices(pool)]}

NoFixed == [sl \in {} |-> <<>>]

Wire(template, wiring) ==
    [i \in DOMAIN template |->
        [ref |-> template[i].ref, name |-> template[i].name,
         pins |-> [j \in DOMAIN template[i].pins |->
                     [num |-> template[i].pins[j].num, name |-> template[i].pins[j].name,
                      nets |-> wiring[<<i, j>>]]]]]

Prefix(seq, n) == {seq[i] : i \in 1..(IF n < Len(seq) THEN n ELSE Len(seq))}

NetNames == <<"VIN", "GND", "VSW", "VSW_1", "GND_SEC", "vout">>
NetPool == Prefix(NetNames, NumNets)

\* variables an operation does not use keep these values
Idle ==
    /\ rules = <<>> /\ idx = 0 /\ cache = {} /\ errors = <<>> /\ warnings = <<>>
    /\ result = NULL /\ stage = <<>>

------------------------------------------------------------------------------
(* Augmentation at pipeline entry (run.py: run_topology_verification,       *)
(* run_complex_task_verification), applied once and then once more.         *)

\* a MOSFET whose three source pins share the pin name, and a resistor
AugTemplate ==
    << Part("Q1", "BSC052N08NS5", << <<"1", "S">>, <<"2", "S">>, <<"4", "G">>, <<"5", "D">> >>),
       Part("R1", "R", << <<"1", "~">>, <<"2", "~">> >>) >>

AugInit ==
    /\ kg \in {KGByNumber, KGByName, KGEmpty}
    /\ std = NULL /\ task = NoTask
    /\ \E w \in Wirings(AugTemplate, NoFixed, NetPool) : gen = snapshot_from_circuit(Wire(AugTemplate, w))
    /\ pc = "raw"
    /\ Idle

Augment ==
    /\ pc = "raw"
    /\ gen' = augment_snapshot(gen, kg)
    /\ pc' = "augmented"
    /\ UNCHANGED <<kg, std, task, rules, idx, cache, errors, warnings, result, stage>>

AugmentAgain ==
    /\ pc = "augmented"
    /\ gen' = augment_snapshot(gen, kg)
    /\ pc' = "augmented_twice"
    /\ UNCHANGED <<kg, std, task, rules, idx, cache, errors, warnings, result, stage>>

AugNext == Augment \/ AugmentAgain

SpecAug == AugInit /\ [][AugNext]_vars

\* every endpoint of every net of a snapshot, with its net
EndpointsOfSnapshot(snapshot) ==
    UNION {{[net |-> snapshot.nets[k].name, ep |-> snapshot.nets[k].endpoints[e]] :
               e \in DOMAIN snapshot.nets[k].endpoints} : k \in DOMAIN snapshot.nets}

\* the pins of `ref` that carry exactly this pin_id and pin_name
OwnPins(snapshot, ep) ==
    {pin \in Range(PinsOfRef(snapshot, ep.ref)) :
        pin.pin_id = ep.pin_id /\ pin.pin_name = ep.pin_name}

\* C7 (as claimed): after augment_snapshot every net endpoint carries the
\* pin_role recorded on the pin of its owning component that has the
\* endpoint's pin_id and pin_name, and the owning component's category, also
\* when several pins of the component share a pin name.
C7_EndpointMatchesOwnPin ==
    pc \in {"augmented", "augmented_twice"} =>
        \A x \in EndpointsOfSnapshot(gen) :
            /\ \A pin \in OwnPins(gen, x.ep) : x.ep.pin_role = pin.pin_role
            /\ \A i \in DOMAIN gen.components :
                   gen.components[i].ref = x.ep.ref =>
                       x.ep.component_category = gen.components[i].category

\* C8: augmenting an augmented snapshot changes nothing: every category,
\* pin_role, endpoint pin_role and endpoint component_category stays as the
\* first augmentation left it.
C8_AugmentIdempotent ==
    [][(pc = "augmented" /\ pc' = "augmented_twice") => gen' = gen]_vars

\* C8 witness: a second augmentation has run on a snapshot in which the
\* first one filled in a role and a category on some endpoint.
C8_Witness ==
    /\ pc = "augmented_twice"
    /\ \E x \in EndpointsOfSnapshot(gen) :
           x.ep.pin_role = "mosfet_gate" /\ x.ep.component_category = "MOSFET"
    /\ \E x \in EndpointsOfSnapshot(gen) : x.ep.component_category = "passive"

------------------------------------------------------------------------------
(* isolation_domain.py *)

\* _find_isolation_components: the boundary components, in component order
_find_isolation_components(snapshot, store) ==
    LET isos == SelectSeq(snapshot.components,
                    LAMBDA c : HasComponent(store, c.part_id)
                               /\ get_component(store, c.part_id).isolation_boundary)
    IN [i \in DOMAIN isos |->
           [ref |-> isos[i].ref, part_id |-> isos[i].part_id,
            primary_pins |-> get_component(store, isos[i].part_id).primary_pins,
            secondary_pins |-> get_component(store, isos[i].part_id).secondary_pins,
            pins |-> isos[i].pins]]

\* _pin_in_set: int(pin_id) in pin_set, or, when int() raises, the string
\* among the strings of the set's members
_pin_in_set(pin_id, pin_set) ==
    IF IntParses(pin_id) THEN IntOf(pin_id) \in pin_set.ints
    ELSE PyStr(pin_id) \in (pin_set.strs \cup {ToString(n) : n \in pin_set.ints})

\* the nets a list of nets joins to net n: every other position of the list
JoinedBy(list, n) ==
    {list[j] : j \in {j \in DOMAIN list : \E i \in DOMAIN list : i # j /\ list[i] = n}}

\* comp_pins[ref]: (pin_id, net_name) of every endpoint of ref, in net order
CompPins(snapshot, ref) ==
    Flatten([k \in DOMAIN snapshot.nets |->
        LET eps == SelectSeq(snapshot.nets[k].endpoints, LAMBDA e : e.ref = ref)
        IN [e \in DOMAIN eps |-> [pin_id |-> eps[e].pin_id, net |-> snapshot.nets[k].name]]])

NetNamesOf(snapshot) == {snapshot.nets[k].name : k \in DOMAIN snapshot.nets}

\* _build_net_graph: net name -> adjacent net names
_build_net_graph(snapshot, iso_components) ==
    LET refs == {x.ep.ref : x \in EndpointsOfSnapshot(snapshot)}
        IsIso(ref) == \E i \in DOMAIN iso_components : iso_components[i].ref = ref
        \* iso_refs keeps the last boundary component of a ref
        IsoOf(ref) ==
            iso_components[CHOOSE i \in DOMAIN iso_components :
                /\ iso_components[i].ref = ref
                /\ \A j \in DOMAIN iso_components : iso_components[j].ref = ref => j <= i]
        NetsOn(ref, side) ==
            LET on == SelectSeq(CompPins(snapshot, ref), LAMBDA q : _pin_in_set(q.pin_id, side))
            IN [i \in DOMAIN on |-> on[i].net]
        AllNets(ref) == LET on == CompPins(snapshot, ref) IN [i \in DOMAIN on |-> on[i].net]
        Through(ref, n) ==
            IF IsIso(ref)
            THEN JoinedBy(NetsOn(ref, IsoOf(ref).primary_pins), n)
                 \cup JoinedBy(NetsOn(ref, IsoOf(ref).secondary_pins), n)
            ELSE JoinedBy(AllNets(ref), n)
    IN [n \in NetNamesOf(snapshot) |-> UNION {Through(ref, n) : ref \in refs}]

\* the search stopped after the neighbours of the start nets
_bfs_connected_nets_one_hop(start_nets, net_graph) ==
    start_nets \cup
        UNION {IF n \in DOMAIN net_graph THEN net_graph[n] ELSE {} : n \in start_nets}

\* _bfs_connected_nets: the visited set when the queue runs empty
RECURSIVE _bfs_connected_nets(_, _)
_bfs_connected_nets(start_nets, net_graph) ==
    LET next == start_nets \cup
                UNION {IF n \in DOMAIN net_graph THEN net_graph[n] ELSE {} : n \in start_nets}
    IN IF next = start_nets THEN start_nets ELSE _bfs_connected_nets(next, net_graph)

AnchorPatterns == <<"VIN", "VBUS", "VCC", "V12", "V5", "GND_PRI", "PGND">>

_find_primary_domain(snapshot, net_graph) ==
    LET names == [k \in DOMAIN snapshot.nets |-> snapshot.nets[k].name]
        anchors == {names[k] : k \in {k \in DOMAIN names :
                       \E p \in Range(AnchorPatterns) : Contains(Upper(names[k]), p)}}
        vins == SelectSeq(names, LAMBDA n : Contains(Upper(n), "VIN"))
        start_nets ==
            IF anchors # {} THEN anchors
            ELSE IF vins # <<>> THEN {vins[1]}
            ELSE IF names # <<>> THEN {names[1]}
            ELSE {}
    IN _bfs_connected_nets(start_nets, net_graph)

\* the loop with the visited set never extended by the domains found
RECURSIVE SecondaryFrom_stale_visited(_, _, _, _)
SecondaryFrom_stale_visited(iso_components, i, net_graph, all_visited) ==
    IF i > Len(iso_components) THEN <<>>
    ELSE LET iso == iso_components[i]
             sec_start_nets ==
                 {iso.pins[j].net : j \in {j \in DOMAIN iso.pins :
                     /\ _pin_in_set(iso.pins[j].pin_id, iso.secondary_pins)
                     /\ Truthy(iso.pins[j].net)
                     /\ iso.pins[j].net \notin all_visited}}
             domain == _bfs_connected_nets(sec_start_nets, net_graph) \ all_visited
         IN IF sec_start_nets # {} /\ domain # {}
            THEN <<domain>> \o SecondaryFrom_stale_visited(iso_components, i + 1,
                                                           net_graph, all_visited)
            ELSE SecondaryFrom_stale_visited(iso_components, i + 1, net_graph,
                                             all_visited)

\* the loop of _find_secondary_domains from boundary component i on
RECURSIVE SecondaryFrom(_, _, _, _)
SecondaryFrom(iso_components, i, net_graph, all_visited) ==
    IF i > Len(iso_components) THEN <<>>
    ELSE LET iso == iso_components[i]
             sec_start_nets ==
                 {iso.pins[j].net : j \in {j \in DOMAIN iso.pins :
                     /\ _pin_in_set(iso.pins[j].pin_id, iso.secondary_pins)
                     /\ Truthy(iso.pins[j].net)
                     /\ iso.pins[j].net \notin all_visited}}
             domain == _bfs_connected_nets(sec_start_nets, net_graph) \ all_visited
         IN IF sec_start_nets # {} /\ domain # {}
            THEN <<domain>> \o SecondaryFrom(iso_components, i + 1, net_graph,
                                             all_visited \cup domain)
            ELSE SecondaryFrom(iso_components, i + 1, net_graph, all_visited)

_find_secondary_domains(net_graph, iso_components, primary_nets) ==
    SecondaryFrom(iso_components, 1, net_graph, primary_nets)

identify_isolation_domains(snapshot, store) ==
    LET iso_components == _find_isolation_components(snapshot, store)
        net_graph == _build_net_graph(snapshot, iso_components)
        primary_nets == _find_primary_domain(snapshot, net_graph)
    IN IF iso_components = <<>>
       THEN [primary |-> NetNamesOf(snapshot), secondary |-> <<>>]
       ELSE [primary |-> primary_nets,
             secondary |-> _find_secondary_domains(net_graph, iso_components, primary_nets)]

get_net_domain(net_name, domains) ==
    IF net_name \in domains.primary THEN "primary"
    ELSE IF \E i \in DOMAIN domains.secondary : net_name \in domains.secondary[i]
    THEN "secondary_" \o
         ToString((CHOOSE i \in DOMAIN domains.secondary :
                      /\ net_name \in domains.secondary[i]
                      /\ \A j \in 1..(i - 1) : net_name \notin domains.secondary[j]) - 1)
    ELSE "unknown"

\* the nets on the two sides of one boundary component
SideNets(iso) ==
    LET live == {j \in DOMAIN iso.pins : Truthy(iso.pins[j].net) /\ iso.pins[j].net # "NC"}
        pri == {j \in live : _pin_in_set(iso.pins[j].pin_id, iso.primary_pins)}
        sec == {j \in live \ pri : _pin_in_set(iso.pins[j].pin_id, iso.secondary_pins)}
    IN [primary |-> {iso.pins[j].net : j \in pri}, secondary |-> {iso.pins[j].net : j \in sec}]

BarrierError(ref, net) ==
    ref \o ": Net '" \o net \o "' connects both primary and secondary sides "
        \o "(isolation barrier violation)"

\* check_isolation_boundary_violations: every list it may return (the nets
\* of one component's overlap come in set iteration order)
RECURSIVE BoundaryViolationsFrom(_, _)
BoundaryViolationsFrom(iso_components, i) ==
    IF i > Len(iso_components) THEN {<<>>}
    ELSE LET iso == iso_components[i]
             overlap == SideNets(iso).primary \cap SideNets(iso).secondary
         IN {[k \in DOMAIN o |-> BarrierError(iso.ref, o[k])] \o rest :
                o \in SetOrderings(overlap),
                rest \in BoundaryViolationsFrom(iso_components, i + 1)}

check_isolation_boundary_violations(snapshot, store) ==
    BoundaryViolationsFrom(_find_isolation_components(snapshot, store), 1)

------------------------------------------------------------------------------
(* net_conflict_checker.py *)

NetConflictError(net_name, first, domain) ==
    "NET CONFLICT: '" \o net_name \o "' appears in both " \o first \o " and " \o domain
        \o " domains. This may cause unintended short circuit."

\* the loop of _check_cross_domain_nets from net k on; net_domains maps the
\* names seen so far to the domain recorded for them
RECURSIVE CrossDomainFrom(_, _, _, _)
CrossDomainFrom(snapshot, domains, k, net_domains) ==
    IF k > Len(snapshot.nets) THEN <<>>
    ELSE LET net_name == OrEmpty(snapshot.nets[k].name)
             domain == get_net_domain(net_name, domains)
         IN IF net_name \in DOMAIN net_domains
            THEN (IF net_domains[net_name] # domain
                  THEN <<NetConflictError(net_name, net_domains[net_name], domain)>>
                  ELSE <<>>)
                 \o CrossDomainFrom(snapshot, domains, k + 1, net_domains)
            ELSE CrossDomainFrom(snapshot, domains, k + 1, net_domains @@ (net_name :> domain))

_check_cross_domain_nets(snapshot, domains) ==
    IF domains.secondary = <<>> THEN <<>>
    ELSE CrossDomainFrom(snapshot, domains, 1, [n \in {} |-> ""])

_check_gnd_naming(snapshot, domains) ==
    LET num_domains == 1 + Len(domains.secondary)
        unique_gnds == {n \in NetNamesOf(snapshot) : Contains(Upper(n), "GND") \/ Upper(n) = "VSS"}
    IN IF domains.secondary = <<>> THEN <<>>
       ELSE IF Cardinality(unique_gnds) < num_domains
       THEN << "GND NAMING WARNING: Circuit has " \o ToString(num_domains)
               \o " isolation domains but only " \o ToString(Cardinality(unique_gnds))
               \o " unique GND net(s): " \o ListRepr(Sorted(unique_gnds))
               \o ". Consider using distinct names like GND_PRI, GND_SEC1, GND_SEC2." >>
       ELSE <<>>

\* _check_reserved_name_conflicts only collects; it reports nothing
_check_reserved_name_conflicts(snapshot, domains) == <<>>

\* position of the last "_" of s, 0 when there is none
LastUnderscore(s) ==
    IF \E i \in 1..Len(s) : SubSeq(s, i, i) = "_"
    THEN CHOOSE i \in 1..Len(s) :
            SubSeq(s, i, i) = "_" /\ \A j \in (i + 1)..Len(s) : SubSeq(s, j, j) # "_"
    ELSE 0

\* net_name.rsplit('_', 1) has two parts and the second is a number
HasNumericSuffix(s) ==
    LastUnderscore(s) > 0 /\ IsDigit(SubSeq(s, LastUnderscore(s) + 1, Len(s)))

BaseName(s) == IF HasNumericSuffix(s) THEN SubSeq(s, 1, LastUnderscore(s) - 1) ELSE s

_check_instance_conflicts(snapshot) ==
    LET names == [k \in DOMAIN snapshot.nets |-> OrEmpty(snapshot.nets[k].name)]
        bases == FirstOccurrences([k \in DOMAIN names |-> BaseName(names[k])], {})
        Instances(base) == SelectSeq(names, LAMBDA n : BaseName(n) = base)
        Conflict(base) ==
            /\ \E n \in Range(Instances(base)) : HasNumericSuffix(n)
            /\ \E n \in Range(Instances(base)) : ~HasNumericSuffix(n)
        bad == SelectSeq(bases, Conflict)
    IN [b \in DOMAIN bad |->
           "INSTANCE NAMING WARNING: Net '" \o bad[b] \o "' exists both with and without "
           \o "numeric suffixes: " \o ListRepr(Sorted(Range(Instances(bad[b]))))
           \o ". This may indicate incomplete multi-instance naming."]

check_net_conflicts(snapshot, store) ==
    LET domains == identify_isolation_domains(snapshot, store)
    IN _check_cross_domain_nets(snapshot, domains)
       \o _check_gnd_naming(snapshot, domains)
       \o _check_reserved_name_conflicts(snapshot, domains)
       \o _check_instance_conflicts(snapshot)

check_mosfet_net_conflicts(snapshot) ==
    LET mosfets == SelectSeq(snapshot.components,
                       LAMBDA c : \/ Contains(Upper(c.part_id), "MOSFET")
                                  \/ StartsWith(Upper(c.part_id), "IM")
                                  \/ StartsWith(Upper(c.part_id), "BSC"))
        \* one (net, ref) per connected gate pin, in MOSFET and pin order
        gates == Flatten([m \in DOMAIN mosfets |->
                    LET ps == SelectSeq(mosfets[m].pins,
                                  LAMBDA q : Truthy(q.net) /\ q.net # "NC"
                                             /\ q.pin_role = "mosfet_gate")
                    IN [j \in DOMAIN ps |-> [net |-> ps[j].net, ref |-> mosfets[m].ref]]])
        gate_nets == FirstOccurrences([g \in DOMAIN gates |-> gates[g].net], {})
        RefsOn(net) == LET on == SelectSeq(gates, LAMBDA g : g.net = net)
                       IN [g \in DOMAIN on |-> on[g].ref]
        crowded == SelectSeq(gate_nets, LAMBDA n : Len(RefsOn(n)) > 2)
    IN [c \in DOMAIN crowded |->
           "GATE NET WARNING: Net '" \o crowded[c] \o "' connects to "
           \o ToString(Len(RefsOn(crowded[c]))) \o " MOSFET gates: "
           \o ListRepr(RefsOn(crowded[c])) \o ". This may indicate unintended parallel "
           \o "connection or missing numeric suffix for multi-half-bridge design."]

------------------------------------------------------------------------------
(* Isolation domains and net conflicts of a circuit with two isolated       *)
(* supplies and a decoupling capacitor.                                     *)

\* number of net names of the isolation circuits
IsoNumNets == 3

IsoNetNames == <<"VIN", "GND", "GND_1", "COM", "V5_SEC">>
IsoNetPool == Prefix(IsoNetNames, IsoNumNets)

MGJ2DPins == << <<"1", "+VIN">>, <<"2", "-VIN">>, <<"5", "-VOUT">>, <<"6", "0V">>, <<"7", "+VOUT">> >>

IsoTemplate ==
    << Part("U1", "MGJ2D121505SC", MGJ2DPins),
       Part("U2", "MGJ2D121505SC", MGJ2DPins),
       Part("C1", "C", << <<"1", "~">>, <<"2", "~">> >>) >>

\* both supplies: +VIN on VIN, +VOUT and -VOUT open; C1 on GND
IsoFixed ==
    (<<1, 1>> :> <<"VIN">>) @@ (<<1, 3>> :> <<>>) @@ (<<1, 5>> :> <<>>) @@
    (<<2, 1>> :> <<"VIN">>) @@ (<<2, 3>> :> <<>>) @@ (<<2, 5>> :> <<>>) @@
    (<<3, 2>> :> <<"GND">>)

IsoInit ==
    /\ kg \in {KGByNumber, KGByName, KGEmpty}
    /\ std = NULL /\ task = NoTask
    /\ \E w \in Wirings(IsoTemplate, IsoFixed, IsoNetPool) :
           gen = snapshot_from_circuit(Wire(IsoTemplate, w))
    /\ pc = "raw"
    /\ Idle

IsoAugment ==
    /\ pc = "raw"
    /\ gen' = augment_snapshot(gen, kg)
    /\ pc' = "augmented"
    /\ UNCHANGED <<kg, std, task, rules, idx, cache, errors, warnings, result, stage>>

IdentifyDomains ==
    /\ pc = "augmented"
    /\ result' = identify_isolation_domains(gen, kg)
    /\ pc' = "domains"
    /\ UNCHANGED <<kg, std, gen, task, rules, idx, cache, errors, warnings, stage>>

CheckNetConflicts ==
    /\ pc = "domains"
    /\ errors' = check_net_conflicts(gen, kg)
    /\ pc' = "conflicts"
    /\ UNCHANGED <<kg, std, gen, task, rules, idx, cache, warnings, result, stage>>

IsoNext == IsoAugment \/ IdentifyDomains \/ CheckNetConflicts

SpecIso == IsoInit /\ [][IsoNext]_vars

\* C5: the primary set and the secondary sets returned by
\* identify_isolation_domains are pairwise disjoint and hold only names of
\* nets of the snapshot.
C5_DomainsPartitionNets ==
    pc \in {"domains", "conflicts"} =>
        /\ result.primary \subseteq NetNamesOf(gen)
        /\ \A i \in DOMAIN result.secondary :
               /\ result.secondary[i] \subseteq NetNamesOf(gen)
               /\ result.secondary[i] \cap result.primary = {}
               /\ \A j \in DOMAIN result.secondary :
                      i # j => result.secondary[i] \cap result.secondary[j] = {}

\* C5 witness: a result with a non-empty primary set and two secondary sets.
C5_Witness ==
    /\ pc = "domains"
    /\ result.primary # {}
    /\ Len(result.secondary) = 2

\* two nets are adjacent when a component that is no boundary component has
\* an endpoint on each, or a boundary component has an endpoint on each on
\* pins of the same side
NetsAdjacent(snapshot, store, n, m) ==
    LET isos == _find_isolation_components(snapshot, store)
        refs == {x.ep.ref : x \in EndpointsOfSnapshot(snapshot)}
        SameSide(ref, p, q) ==
            \/ \A i \in DOMAIN isos : isos[i].ref # ref
            \/ \E i \in DOMAIN isos :
                   /\ isos[i].ref = ref
                   /\ \/ /\ _pin_in_set(p.pin_id, isos[i].primary_pins)
                         /\ _pin_in_set(q.pin_id, isos[i].primary_pins)
                      \/ /\ _pin_in_set(p.pin_id, isos[i].secondary_pins)
                         /\ _pin_in_set(q.pin_id, isos[i].secondary_pins)
    IN \E ref \in refs :
           LET on == CompPins(snapshot, ref)
           IN \E a \in DOMAIN on : \E b \in DOMAIN on :
                  /\ a # b
                  /\ on[a].net = n /\ on[b].net = m
                  /\ SameSide(ref, on[a], on[b])

\* the domains of a result: the primary set and every secondary set
DomainsOf(domains) ==
    {domains.primary} \cup {domains.secondary[i] : i \in DOMAIN domains.secondary}

\* C28: in the result of identify_isolation_domains no net of a domain is
\* adjacent to a net that is not in the same domain, every secondary domain is
\* non-empty, and there are at most as many secondary domains as boundary
\* components.
C28_DomainsClosedUnderAdjacency ==
    pc \in {"domains", "conflicts"} =>
        /\ \A d \in DomainsOf(result) :
               \A n \in d : \A m \in NetNamesOf(gen) :
                   NetsAdjacent(gen, kg, n, m) => m \in d
        /\ \A i \in DOMAIN result.secondary : result.secondary[i] # {}
        /\ Len(result.secondary) <= Len(_find_isolation_components(gen, kg))

\* C28 witness: a secondary domain of two adjacent nets next to a primary
\* domain that a boundary component separates from it.
C28_Witness ==
    /\ pc = "domains"
    /\ result.primary # {}
    /\ \E i \in DOMAIN result.secondary :
           \E n \in result.secondary[i] : \E m \in result.secondary[i] :
               n # m /\ NetsAdjacent(gen, kg, n, m)

\* the boundary components of the candidate with the nets of their two sides
IsoSides ==
    LET isos == _find_isolation_components(gen, kg)
    IN {[ref |-> isos[i].ref, sides |-> SideNets(isos[i])] : i \in DOMAIN isos}

\* C6 (as claimed): when the secondary sides of two isolated supplies reuse
\* the net name GND that is also used on the primary side, the list returned
\* by check_net_conflicts contains the hard error
\* "NET CONFLICT: 'GND' appears in both primary and secondary_0 domains".
C6_CrossDomainGndReported ==
    (/\ pc = "conflicts"
     /\ \E a, b \in IsoSides :
            /\ a.ref # b.ref
            /\ "GND" \in a.sides.secondary /\ "GND" \in b.sides.secondary
            /\ "GND" \in a.sides.primary)
    => \E i \in DOMAIN errors : StartsWith(errors[i],
           "NET CONFLICT: 'GND' appears in both primary and secondary_0 domains")

------------------------------------------------------------------------------
(* passive_collapse.py and rule_extractor.py: the connection rules of a     *)
(* reference snapshot.  A rule endpoint is a record                         *)
(* [part_id, category, pin_role, pin_id, pin_name, domain], an absent key   *)
(* being NULL as dict.get gives it.                                         *)

classify_passive(component) ==
    LET part_id == Strip(OrEmpty(component.part_id))
        ref == Strip(OrEmpty(component.ref))
        category == component.category
        prefix == Upper(SubSeq(ref, 1, 1))
    IN IF part_id \in OneLetterPassives THEN part_id
       ELSE IF category # "passive" THEN NULL
       ELSE IF prefix \in OneLetterPassives THEN prefix
       ELSE NULL

UCC21710_PRIMARY_PIN_NAMES ==
    {"GND", "IN+", "IN-", "RDY", "~{FLT}", "~{RST}/EN", "VCC", "APWM"}

UCC21710_SECONDARY_PIN_NAMES ==
    {"AIN", "OC", "COM", "OUTH", "VDD", "OUTL", "CLMPI", "VEE"}

_ucc21710_domain(pin_id, pin_name) ==
    IF Truthy(pin_id) /\ IsDigit(pin_id) /\ DecimalValue(pin_id, 0) \in 1..8
    THEN "secondary"
    ELSE IF Truthy(pin_id) /\ IsDigit(pin_id) /\ DecimalValue(pin_id, 0) \in 9..16
    THEN "primary"
    ELSE IF pin_name \in UCC21710_PRIMARY_PIN_NAMES THEN "primary"
    ELSE IF pin_name \in UCC21710_SECONDARY_PIN_NAMES THEN "secondary"
    ELSE NULL

\* the nets a component's pins are attached to
_component_nets(comp) ==
    {comp.pins[j].net : j \in {j \in DOMAIN comp.pins : Truthy(comp.pins[j].net)}}

\* net |-> the endpoints of the non-passive components on it (the order of
\* the list is not kept: _pick_endpoint sorts it by a key of all the fields)
_collect_net_endpoints(snapshot) ==
    LET comps == {c \in Range(snapshot.components) : c.category # "passive"}
        endpoint(c, pin) ==
            [part_id |-> c.part_id, category |-> c.category,
             pin_role |-> pin.pin_role,
             pin_id |-> PyStr(pin.pin_id), pin_name |-> PyStr(pin.pin_name),
             domain |-> IF c.part_id = "UCC21710"
                        THEN _ucc21710_domain(PyStr(pin.pin_id), PyStr(pin.pin_name))
                        ELSE NULL]
    IN [net \in UNION {_component_nets(c) : c \in comps} |->
          UNION {{endpoint(c, c.pins[j]) :
                    j \in {j \in DOMAIN c.pins : c.pins[j].net = net}} : c \in comps}]

\* a < b for tuples of strings of one length
TupleLess(a, b) ==
    \E i \in DOMAIN a : StrLess(a[i], b[i]) /\ \A j \in 1..(i - 1) : a[j] = b[j]

extractor_endpoint_key(endpoint) ==
    << IF Truthy(endpoint.pin_role) THEN "0" ELSE "1",
       OrEmpty(endpoint.part_id), OrEmpty(endpoint.category),
       OrEmpty(endpoint.pin_role), OrEmpty(endpoint.pin_id),
       OrEmpty(endpoint.pin_name), OrEmpty(endpoint.domain) >>

\* sorted(endpoints, key=_endpoint_key)[0]; the callers test for no endpoints
_pick_endpoint(endpoints) ==
    CHOOSE e \in endpoints :
        \A f \in endpoints :
            ~TupleLess(extractor_endpoint_key(f), extractor_endpoint_key(e))

_endpoint_signature(endpoint) ==
    << OrEmpty(endpoint.part_id), OrEmpty(endpoint.category),
       OrEmpty(endpoint.pin_role), OrEmpty(endpoint.pin_id),
       OrEmpty(endpoint.pin_name) >>

\* the sorted pair of signatures is kept as the set of the two
_rule_key(rule_type, ep_a, ep_b) ==
    [rule_type |-> rule_type,
     ordered |-> {_endpoint_signature(ep_a), _endpoint_signature(ep_b)}]

_is_ucc21710_rdy_gnd(ep_a, ep_b) ==
    \/ ep_a.pin_name = "RDY" /\ ep_b.pin_role = "supply_gnd"
    \/ ep_b.pin_name = "RDY" /\ ep_a.pin_role = "supply_gnd"

_is_ucc21710_rst_en_gnd(ep_a, ep_b) ==
    LET names == {ep_a.pin_name, ep_b.pin_name}
    IN "~{RST}/EN" \in names /\ ("IN-" \in names \/ "GND" \in names)

_should_skip_rule(rule_type, ep_a, ep_b) ==
    LET roles == {ep_a.pin_role, ep_b.pin_role}
    IN IF ep_a.part_id # "UCC21710" \/ ep_b.part_id # "UCC21710" THEN FALSE
       ELSE \/ Truthy(ep_a.domain) /\ Truthy(ep_b.domain) /\ ep_a.domain # ep_b.domain
            \/ rule_type = "C_DIRECT" /\ _is_ucc21710_rdy_gnd(ep_a, ep_b)
            \/ rule_type = "C_DIRECT" /\ _is_ucc21710_rst_en_gnd(ep_a, ep_b)
            \/ rule_type = "C_DIRECT" /\ roles = {"logic_in", "logic_out"}
            \/ rule_type = "R_PATH" /\ roles = {"supply_gnd", "supply_vdd"}

Rule(rule_type, ep_a, ep_b, allow_series) ==
    [rule_type |-> rule_type, endpoint_a |-> ep_a, endpoint_b |-> ep_b,
     allow_series |-> allow_series, min_count |-> 1, fail_on_short |-> TRUE]

\* `seen` holds the keys of the rules appended so far
_add_rule(rule_list, rule_type, ep_a, ep_b, allow_series) ==
    LET seen == {_rule_key(r.rule_type, r.endpoint_a, r.endpoint_b) : r \in Range(rule_list)}
    IN IF _should_skip_rule(rule_type, ep_a, ep_b) THEN rule_list
       ELSE IF _rule_key(rule_type, ep_a, ep_b) \in seen THEN rule_list
       ELSE Append(rule_list, Rule(rule_type, ep_a, ep_b, allow_series))

\* the nets reached from `nets` over the passives of one type
RECURSIVE PassiveClosure(_, _)
PassiveClosure(nets, passives) ==
    LET more == nets \cup UNION {_component_nets(c) :
                    c \in {c \in passives : _component_nets(c) \cap nets # {}}}
    IN IF more = nets THEN nets ELSE PassiveClosure(more, passives)

\* the net sets of the connected components of the passive/net graph, in the
\* order the traversal finds them: that of the first passive of each
_passive_net_components(snapshot, passive_type) ==
    LET comps == snapshot.components
        wired == SelectSeq(comps, LAMBDA c :
                     classify_passive(c) = passive_type /\ _component_nets(c) # {})
        group(k) == PassiveClosure(_component_nets(wired[k]), Range(wired))
        first == {k \in DOMAIN wired : \A h \in 1..(k - 1) : group(h) # group(k)}
    IN [n \in 1..Cardinality(first) |->
          group(CHOOSE k \in first : Cardinality({h \in first : h < k}) = n - 1)]

\* the pairs of a list as itertools.combinations(list, 2) yields them
Combinations2(seq) ==
    Flatten([i \in DOMAIN seq |->
                [k \in 1..(Len(seq) - i) |-> <<seq[i], seq[i + k]>>]])

\* the C_DIRECT rules build_rules offers to _add_rule, in its order
CapCandidates(snapshot) ==
    LET net_endpoints == _collect_net_endpoints(snapshot)
        picked(net) == net \in DOMAIN net_endpoints
        caps == SelectSeq(snapshot.components, LAMBDA c :
                    /\ classify_passive(c) = "C"
                    /\ Cardinality(_component_nets(c)) = 2
                    /\ \A net \in _component_nets(c) : picked(net))
    IN [k \in DOMAIN caps |->
          LET nets == Sorted(_component_nets(caps[k]))
          IN Rule("C_DIRECT", _pick_endpoint(net_endpoints[nets[1]]),
                  _pick_endpoint(net_endpoints[nets[2]]), FALSE)]

\* the R_PATH or L_PATH rules build_rules offers to _add_rule, in its order
PathCandidates(snapshot, passive_type, rule_type) ==
    LET net_endpoints == _collect_net_endpoints(snapshot)
        components == _passive_net_components(snapshot, passive_type)
        endpoints(nets) ==
            LET with == SelectSeq(Sorted(nets), LAMBDA net : net \in DOMAIN net_endpoints)
            IN [k \in DOMAIN with |-> _pick_endpoint(net_endpoints[with[k]])]
        pairs(nets) == Combinations2(endpoints(nets))
    IN Flatten([n \in DOMAIN components |->
                  [k \in DOMAIN pairs(components[n]) |->
                      Rule(rule_type, pairs(components[n])[k][1],
                           pairs(components[n])[k][2], TRUE)]])

RECURSIVE AddRules(_, _)
AddRules(rule_list, candidates) ==
    IF candidates = <<>> THEN rule_list
    ELSE LET c == Head(candidates)
         IN AddRules(_add_rule(rule_list, c.rule_type, c.endpoint_a, c.endpoint_b,
                               c.allow_series),
                     Tail(candidates))

build_rules(snapshot) ==
    AddRules(<<>>, CapCandidates(snapshot)
                       \o PathCandidates(snapshot, "R", "R_PATH")
                       \o PathCandidates(snapshot, "L", "L_PATH"))

------------------------------------------------------------------------------
(* rule_checker.py: the rules of the reference checked on the candidate.    *)

_capacitor_pairs(snapshot) ==
    {_component_nets(c) : c \in {c \in Range(snapshot.components) :
        classify_passive(c) = "C" /\ Cardinality(_component_nets(c)) = 2}}

\* rule_checker.py carries its own copy of the traversal of rule_extractor.py
checker_passive_net_components(snapshot, passive_type) ==
    _passive_net_components(snapshot, passive_type)

checker_endpoint_key(endpoint) ==
    << OrEmpty(endpoint.part_id), OrEmpty(endpoint.category),
       OrEmpty(endpoint.pin_role), OrEmpty(endpoint.pin_id),
       OrEmpty(endpoint.pin_name) >>

\* the nets _resolve_endpoint_nets computes when the key is not in the cache
ResolveUncached(snapshot, endpoint) ==
    LET part_id == endpoint.part_id
        category == endpoint.category
        pin_role == endpoint.pin_role
        pin_id == endpoint.pin_id
        pin_name == endpoint.pin_name
        comps == {c \in Range(snapshot.components) :
                     /\ Truthy(part_id) => c.part_id = part_id
                     /\ (~Truthy(part_id) /\ Truthy(category)) => c.category = category}
        pinOk(pin) ==
            /\ Truthy(pin_role) => pin.pin_role = pin_role
            /\ Truthy(pin_id) => PyStr(pin.pin_id) = PyStr(pin_id)
            /\ Truthy(pin_name) => PyStr(pin.pin_name) = PyStr(pin_name)
            /\ Truthy(pin.net)
        nets == UNION {{c.pins[j].net : j \in {j \in DOMAIN c.pins : pinOk(c.pins[j])}} :
                          c \in comps}
        byCategory == {c \in Range(snapshot.components) : c.category = category}
        fallback ==
            UNION {{c.pins[j].net : j \in {j \in DOMAIN c.pins :
                       /\ Truthy(pin_role) => c.pins[j].pin_role = pin_role
                       /\ Truthy(c.pins[j].net)}} : c \in byCategory}
    IN IF nets = {} /\ Truthy(part_id) /\ Truthy(category) THEN fallback ELSE nets

\* the cache is a set of entries [key, nets], one for a key
CacheHas(entries, endpoint) ==
    \E e \in entries : e.key = checker_endpoint_key(endpoint)

_resolve_endpoint_nets(snapshot, endpoint, entries) ==
    IF CacheHas(entries, endpoint)
    THEN (CHOOSE e \in entries : e.key = checker_endpoint_key(endpoint)).nets
    ELSE ResolveUncached(snapshot, endpoint)

\* the cache after _resolve_endpoint_nets
CacheAfter(snapshot, endpoint, entries) ==
    IF CacheHas(entries, endpoint) THEN entries
    ELSE entries \cup {[key |-> checker_endpoint_key(endpoint),
                        nets |-> ResolveUncached(snapshot, endpoint)]}

_rule_has_buck_en(rule) ==
    rule.endpoint_a.pin_role = "buck_en" \/ rule.endpoint_b.pin_role = "buck_en"

_rule_has_role_pair(rule, role_a, role_b) ==
    LET roles == {rule.endpoint_a.pin_role, rule.endpoint_b.pin_role}
    IN role_a \in roles /\ role_b \in roles

_is_mosfet_source_drain_cap_rule(rule) ==
    /\ rule.rule_type = "C_DIRECT"
    /\ {rule.endpoint_a.pin_role, rule.endpoint_b.pin_role} = {"mosfet_source", "mosfet_drain"}

_endpoint_desc(endpoint) ==
    LET part_id == IF Truthy(endpoint.part_id) THEN endpoint.part_id
                   ELSE IF Truthy(endpoint.category) THEN endpoint.category
                   ELSE "component"
        role == endpoint.pin_role
        details ==
            (IF Truthy(endpoint.pin_id) THEN PyStr(endpoint.pin_id) ELSE "")
            \o (IF Truthy(endpoint.pin_id) /\ Truthy(endpoint.pin_name) THEN ", " ELSE "")
            \o (IF Truthy(endpoint.pin_name) THEN PyStr(endpoint.pin_name) ELSE "")
    IN IF Truthy(role)
       THEN (IF details # "" THEN part_id \o ":" \o role \o "(" \o details \o ")"
             ELSE part_id \o ":" \o role)
       ELSE IF details # "" THEN part_id \o ":" \o details
       ELSE part_id \o ":pin"

_is_ucc21710_gate_short(rule_type, ep_a, ep_b) ==
    LET roles == {ep_a.pin_role, ep_b.pin_role}
    IN /\ rule_type = "R_PATH"
       /\ ep_a.part_id = "UCC21710" /\ ep_b.part_id = "UCC21710"
       /\ "sense_minus" \in roles
       /\ ("out_plus" \in roles \/ "out_minus" \in roles)

_is_ucc27511_out_pair(rule_type, ep_a, ep_b) ==
    /\ rule_type = "R_PATH"
    /\ ep_a.part_id = "UCC27511" /\ ep_b.part_id = "UCC27511"
    /\ {ep_a.pin_role, ep_b.pin_role} = {"out_plus", "out_minus"}

\* a shared net counting as a short whatever other nets the two sides have
_has_nonshort_pair_ignored(nets_a, nets_b) ==
    FALSE

_has_nonshort_pair(nets_a, nets_b) ==
    \E net_a \in nets_a : \E net_b \in nets_b : net_a # net_b

\* the net _first_common may return: the first one of nets_a, a set, in nets_b
_first_common(nets_a, nets_b) == nets_a \cap nets_b

\* _check_cap_rule reporting a short as soon as the two sides share a net
_check_cap_rule_short_first(nets_a, nets_b, cap_pairs) ==
    LET shorted == nets_a \cap nets_b # {}
        found == \E net_a \in nets_a : \E net_b \in nets_b :
                     net_a # net_b /\ {net_a, net_b} \in cap_pairs
    IN IF shorted THEN [ok |-> FALSE, shorted |-> TRUE]
       ELSE IF found THEN [ok |-> TRUE, shorted |-> FALSE]
       ELSE [ok |-> FALSE, shorted |-> FALSE]

\* (ok, shorted) of _check_cap_rule; its third value is _first_common
_check_cap_rule(nets_a, nets_b, cap_pairs) ==
    LET shorted == nets_a \cap nets_b # {}
        found == \E net_a \in nets_a : \E net_b \in nets_b :
                     net_a # net_b /\ {net_a, net_b} \in cap_pairs
    IN IF found THEN [ok |-> TRUE, shorted |-> FALSE]
       ELSE IF shorted /\ ~_has_nonshort_pair(nets_a, nets_b)
       THEN [ok |-> FALSE, shorted |-> TRUE]
       ELSE [ok |-> FALSE, shorted |-> FALSE]

_nets_connected(net_a, net_b, components) ==
    \E n \in DOMAIN components : net_a \in components[n] /\ net_b \in components[n]

\* (ok, shorted) of _check_path_rule; its third value is _first_common
_check_path_rule(nets_a, nets_b, components) ==
    LET shorted == nets_a \cap nets_b # {}
        found == \E net_a \in nets_a : \E net_b \in nets_b :
                     net_a # net_b /\ _nets_connected(net_a, net_b, components)
    IN IF found THEN [ok |-> TRUE, shorted |-> FALSE]
       ELSE IF shorted /\ ~_has_nonshort_pair(nets_a, nets_b)
       THEN [ok |-> FALSE, shorted |-> TRUE]
       ELSE [ok |-> FALSE, shorted |-> FALSE]

\* the rules the loop of check_rules passes over without looking at them
RuleSkipped(rule, task_id) ==
    \/ task_id = 6 /\ _rule_has_buck_en(rule)
    \/ task_id = 6 /\ _rule_has_role_pair(rule, "buck_vin", "buck_gnd")
    \/ task_id = 6 /\ _rule_has_role_pair(rule, "buck_vin", "buck_fb")
    \/ _is_mosfet_source_drain_cap_rule(rule)

MissingError(rule) ==
    PyStr(rule.rule_type) \o " endpoint missing: " \o _endpoint_desc(rule.endpoint_a)
        \o " or " \o _endpoint_desc(rule.endpoint_b)

\* what the loop may append for a rule both of whose endpoints resolved: a
\* set, the net named by a `shorted` error being the first common one of a set
VerdictErrors(snapshot, rule, task_id, nets_a, nets_b) ==
    LET rule_type == rule.rule_type
        ep_a == rule.endpoint_a
        ep_b == rule.endpoint_b
        verdict ==
            IF rule_type = "C_DIRECT"
            THEN _check_cap_rule(nets_a, nets_b, _capacitor_pairs(snapshot))
            ELSE IF rule_type = "R_PATH"
            THEN _check_path_rule(nets_a, nets_b, checker_passive_net_components(snapshot, "R"))
            ELSE _check_path_rule(nets_a, nets_b, checker_passive_net_components(snapshot, "L"))
    IN IF rule_type \notin {"C_DIRECT", "R_PATH", "L_PATH"} THEN {<<>>}
       ELSE IF verdict.ok THEN {<<>>}
       ELSE IF verdict.shorted
       THEN IF task_id = 13 /\ _is_ucc27511_out_pair(rule_type, ep_a, ep_b) THEN {<<>>}
            ELSE IF _is_ucc21710_gate_short(rule_type, ep_a, ep_b)
            THEN {<< "UCC21710: OUTH (pin 4) and OUTL (pin 6) must each go through "
                     \o "separate series resistors to the GATE net; CLMPI (pin 7) may "
                     \o "connect to GATE. Do not tie OUTH/OUTL directly to CLMPI/GATE." >>}
            ELSE {<< rule_type \o " shorted between " \o _endpoint_desc(ep_a) \o " and "
                     \o _endpoint_desc(ep_b) \o " (net " \o pair \o ")" >> :
                  pair \in _first_common(nets_a, nets_b)}
       ELSE {<< rule_type \o " missing between " \o _endpoint_desc(ep_a) \o " and "
                \o _endpoint_desc(ep_b) \o " (nets " \o ListRepr(Sorted(nets_a))
                \o " vs " \o ListRepr(Sorted(nets_b)) \o ")" >>}

\* the pass going on to evaluate a rule after its endpoint missing error
RuleErrors_no_continue(snapshot, rule, task_id, nets_a, nets_b) ==
    IF nets_a = {} \/ nets_b = {}
    THEN {<<MissingError(rule)>> \o e :
             e \in VerdictErrors(snapshot, rule, task_id, nets_a, nets_b)}
    ELSE VerdictErrors(snapshot, rule, task_id, nets_a, nets_b)

\* what one pass of the loop may append for a rule it looks at, the endpoints
\* resolved to nets_a and nets_b
RuleErrors(snapshot, rule, task_id, nets_a, nets_b) ==
    IF nets_a = {} \/ nets_b = {} THEN {<<MissingError(rule)>>}
    ELSE VerdictErrors(snapshot, rule, task_id, nets_a, nets_b)

\* an endpoint written by hand: the keys it does not give are absent
Endpoint(part_id, category, pin_role) ==
    [part_id |-> part_id, category |-> category, pin_role |-> pin_role,
     pin_id |-> NULL, pin_name |-> NULL, domain |-> NULL]

\* the cache after the endpoints of a list have been resolved in turn
RECURSIVE CacheAfterAll(_, _, _)
CacheAfterAll(snapshot, endpoints, entries) ==
    IF endpoints = <<>> THEN entries
    ELSE CacheAfterAll(snapshot, Tail(endpoints),
                       CacheAfter(snapshot, Head(endpoints), entries))

Task15Endpoints ==
    << Endpoint("UCC5390E", "ic", "out"),
       Endpoint("UCC5390E", "ic", "primary_vdd"), Endpoint("UCC5390E", "ic", "primary_gnd"),
       Endpoint("UCC5390E", "ic", "secondary_vdd"), Endpoint("UCC5390E", "ic", "secondary_gnd") >>

_check_task15_out_resistor(snapshot, r_components, entries) ==
    LET out_nets == _resolve_endpoint_nets(snapshot, Task15Endpoints[1], entries)
        supply_nets == UNION {_resolve_endpoint_nets(snapshot, Task15Endpoints[k], entries) :
                                 k \in 2..5}
    IN IF out_nets = {} THEN << "UCC5390E: OUT pin missing net" >>
       ELSE IF \E n \in DOMAIN r_components :
                   /\ out_nets \cap r_components[n] # {}
                   /\ \E net \in r_components[n] : net \notin out_nets /\ net \notin supply_nets
       THEN <<>>
       ELSE << "UCC5390E: OUT must connect to a gate net through a resistor network" >>

_is_connected_nets(nets) ==
    {net \in nets : Upper(net) \notin {"NC", "__NOCONNECT"}} # {}

Task6Endpoints ==
    << Endpoint("TPS54302", "ic", "buck_en"), Endpoint("TPS54302", "ic", "buck_vin"),
       Endpoint("TPS54302", "ic", "buck_gnd") >>

_check_task6_enable(snapshot, r_components, entries) ==
    LET en_nets == _resolve_endpoint_nets(snapshot, Task6Endpoints[1], entries)
        vin_nets == _resolve_endpoint_nets(snapshot, Task6Endpoints[2], entries)
        gnd_nets == _resolve_endpoint_nets(snapshot, Task6Endpoints[3], entries)
        vin == _check_path_rule(en_nets, vin_nets, r_components)
        gnd == _check_path_rule(en_nets, gnd_nets, r_components)
    IN IF ~_is_connected_nets(en_nets) THEN <<>>
       ELSE IF vin.ok /\ gnd.ok THEN <<>>
       ELSE IF vin.shorted \/ gnd.shorted
       THEN << "EN should not be directly shorted; use a resistor divider between VIN and GND" >>
       ELSE << "EN requires a resistor divider to VIN and GND, or leave EN unconnected/NC" >>

------------------------------------------------------------------------------
(* Rule verification (run.py: run_topology_verification): both snapshots    *)
(* are augmented, the rules of the reference are extracted or read from the *)
(* rule cache file, and check_rules passes over them on the candidate.      *)
(* The task numbers are those check_rules tells apart, the gain check of    *)
(* task 3 left aside.                                                       *)

\* two MOSFETs of one part, a resistor, a capacitor and an inductor
RuleTemplate ==
    << Part("Q1", "BSC052N08NS5", << <<"1", "S">>, <<"4", "G">>, <<"5", "D">> >>),
       Part("Q2", "BSC052N08NS5", << <<"1", "S">>, <<"4", "G">>, <<"5", "D">> >>),
       Part("R1", "R", << <<"1", "~">>, <<"2", "~">> >>),
       Part("C1", "C", << <<"1", "~">>, <<"2", "~">> >>),
       Part("L1", "L", << <<"1", "~">>, <<"2", "~">> >>) >>

\* Q1 source on GND; Q2 source and drain open; C1 GND-VIN; L1 GND-VSW
RuleFixed ==
    (<<1, 1>> :> <<"GND">>) @@ (<<2, 1>> :> <<>>) @@ (<<2, 3>> :> <<>>) @@
    (<<4, 1>> :> <<"GND">>) @@ (<<4, 2>> :> <<"VIN">>) @@
    (<<5, 1>> :> <<"GND">>) @@ (<<5, 2>> :> <<"VSW">>)

\* the same snapshot is reference and candidate
SelfInit ==
    /\ kg \in {KGByNumber, KGEmpty}
    /\ task = NoTask
    /\ \E w \in Wirings(RuleTemplate, RuleFixed, NetPool) :
           std = snapshot_from_circuit(Wire(RuleTemplate, w))
    /\ gen = std
    /\ pc = "raw"
    /\ Idle

RulesAugment ==
    /\ pc = "raw"
    /\ std' = augment_snapshot(std, kg)
    /\ gen' = augment_snapshot(gen, kg)
    /\ pc' = "augmented"
    /\ UNCHANGED <<kg, task, rules, idx, cache, errors, warnings, result, stage>>

\* build_rules leaving its endpoint fields on the pins of the snapshot
ExtractRules_tagging_pins ==
    /\ pc = "augmented"
    /\ rules' = build_rules(std)
    /\ std' = [std EXCEPT !.components =
                  [k \in DOMAIN std.components |->
                      [std.components[k] EXCEPT !.pins =
                          [j \in DOMAIN std.components[k].pins |->
                              std.components[k].pins[j] @@ ("domain" :> NULL)]]]]
    /\ pc' = "loaded"
    /\ UNCHANGED <<kg, gen, task, idx, cache, errors, warnings, result, stage>>

\* load_standard_rules without a cache file
ExtractRules ==
    /\ pc = "augmented"
    /\ rules' = build_rules(std)
    /\ pc' = "loaded"
    /\ UNCHANGED <<kg, std, gen, task, idx, cache, errors, warnings, result, stage>>

\* check_rules up to its loop
StartCheck ==
    /\ pc = "loaded"
    /\ IF task = 15
       THEN /\ errors' = _check_task15_out_resistor(
                             gen, checker_passive_net_components(gen, "R"), {})
            /\ cache' = CacheAfterAll(gen, Task15Endpoints, {})
            /\ pc' = "done"
            /\ idx' = idx
       ELSE /\ errors' = <<>>
            /\ cache' = {}
            /\ pc' = "checking"
            /\ idx' = 1
    /\ UNCHANGED <<kg, std, gen, task, rules, warnings, result, stage>>

\* one pass of the loop of check_rules
CheckRule ==
    /\ pc = "checking"
    /\ idx <= Len(rules)
    /\ LET rule == rules[idx]
           nets_a == _resolve_endpoint_nets(gen, rule.endpoint_a, cache)
           cache_a == CacheAfter(gen, rule.endpoint_a, cache)
           nets_b == _resolve_endpoint_nets(gen, rule.endpoint_b, cache_a)
           cache_b == CacheAfter(gen, rule.endpoint_b, cache_a)
       IN IF RuleSkipped(rule, task)
          THEN UNCHANGED <<errors, cache>>
          ELSE /\ \E appended \in RuleErrors(gen, rule, task, nets_a, nets_b) :
                      errors' = errors \o appended
               /\ cache' = cache_b
    /\ idx' = idx + 1
    /\ UNCHANGED <<kg, std, gen, task, pc, rules, warnings, result, stage>>

\* check_rules after its loop
EndCheck ==
    /\ pc = "checking"
    /\ idx > Len(rules)
    /\ IF task = 6
       THEN /\ errors' = errors \o _check_task6_enable(
                             gen, checker_passive_net_components(gen, "R"), cache)
            /\ cache' = CacheAfterAll(gen, Task6Endpoints, cache)
       ELSE UNCHANGED <<errors, cache>>
    /\ pc' = "done"
    /\ UNCHANGED <<kg, std, gen, task, rules, idx, warnings, result, stage>>

SelfNext == RulesAugment \/ ExtractRules \/ StartCheck \/ CheckRule \/ EndCheck

SpecSelf == SelfInit /\ [][SelfNext]_vars

\* C1: the rules extracted from a snapshot, checked on that snapshot without
\* a task number, give no error.
C1_ReferenceSelfVerifying ==
    pc \in {"checking", "done"} => errors = <<>>

\* C1 witness: a finished check of a rule of each type that is looked at.
C1_Witness ==
    /\ pc = "done"
    /\ errors = <<>>
    /\ \A t \in {"C_DIRECT", "R_PATH", "L_PATH"} :
           \E k \in DOMAIN rules : rules[k].rule_type = t /\ ~RuleSkipped(rules[k], task)

\* C21: the two endpoints of every rule build_rules returns have different
\* signatures (part_id, category, pin_role, pin_id, pin_name), also when the
\* reference has several instances of one part.
C21_RuleEndpointsDistinct ==
    pc \in {"loaded", "checking", "done"} =>
        \A k \in DOMAIN rules :
            _endpoint_signature(rules[k].endpoint_a) # _endpoint_signature(rules[k].endpoint_b)

------------------------------------------------------------------------------
(* Rule verification of a candidate that differs from the reference.        *)

\* the free pins of the references: Q1 gate, Q1 drain, Q2 gate, R1, R1
RefWirings ==
    { RuleFixed @@ (<<1, 2>> :> <<"VSW">>) @@ (<<1, 3>> :> <<"VIN">>)
          @@ (<<2, 2>> :> <<"VSW">>) @@ (<<3, 1>> :> <<"VSW">>) @@ (<<3, 2>> :> <<"VIN">>),
      RuleFixed @@ (<<1, 2>> :> <<"VIN">>) @@ (<<1, 3>> :> <<"VSW">>)
          @@ (<<2, 2>> :> <<>>) @@ (<<3, 1>> :> <<"GND">>) @@ (<<3, 2>> :> <<"VIN">>) }

\* the pins the candidate may wire otherwise: those of the two MOSFETs
CandidateFree == {<<1, 1>>, <<1, 2>>, <<1, 3>>, <<2, 2>>}

\* the candidates for a reference: its parts with the MOSFET pins rewired, or
\* a circuit without parts
Candidates(ref) ==
    {Wire(RuleTemplate, w) :
        w \in Wirings(RuleTemplate,
                      [sl \in DOMAIN ref \ CandidateFree |-> ref[sl]], NetPool)}
    \cup {<<>>}

TaskNumbers == {NoTask, 6, 13, 15}

RulesInit ==
    /\ kg = KGByNumber
    /\ task \in TaskNumbers
    /\ \E ref \in RefWirings :
           /\ std = snapshot_from_circuit(Wire(RuleTemplate, ref))
           /\ \E circuit \in Candidates(ref) : gen = snapshot_from_circuit(circuit)
    /\ pc = "raw"
    /\ Idle

NoFields == Endpoint(NULL, NULL, NULL)

QPin(pin_role, pin_id, pin_name) ==
    [part_id |-> "BSC052N08NS5", category |-> "MOSFET", pin_role |-> pin_role,
     pin_id |-> pin_id, pin_name |-> pin_name, domain |-> NULL]

\* rule lists a rule cache file may hold: endpoints without fields, of a part
\* and category no candidate has, of the waived roles, and a rule type that
\* is not checked
CachedRuleLists ==
    { << Rule("C_DIRECT", NoFields, QPin("mosfet_gate", "4", "G"), FALSE),
         Rule("R_PATH", Endpoint("LM5050", NULL, NULL), QPin("mosfet_source", "1", "S"), TRUE),
         Rule("C_DIRECT", QPin("mosfet_drain", "5", "D"), QPin("mosfet_source", "1", "S"), FALSE) >>,
      << Rule("R_PATH", Endpoint("TPS54302", "ic", "buck_en"), QPin("mosfet_gate", "4", "G"), TRUE),
         Rule("D_PATH", QPin("mosfet_drain", "5", "D"), QPin("mosfet_gate", "4", "G"), FALSE),
         Rule("L_PATH", QPin("mosfet_source", "1", "S"), QPin("mosfet_gate", "4", "G"), TRUE) >> }

\* load_standard_rules with a cache file
ReadCachedRules ==
    /\ pc = "augmented"
    /\ rules' \in CachedRuleLists
    /\ pc' = "loaded"
    /\ UNCHANGED <<kg, std, gen, task, idx, cache, errors, warnings, result, stage>>

RulesNext ==
    RulesAugment \/ ExtractRules \/ ReadCachedRules \/ StartCheck \/ CheckRule \/ EndCheck

SpecRules == RulesInit /\ [][RulesNext]_vars

\* an endpoint of the rule resolves to no net of the candidate
Unresolvable(rule) ==
    \/ ResolveUncached(gen, rule.endpoint_a) = {}
    \/ ResolveUncached(gen, rule.endpoint_b) = {}

\* C10 (as claimed): every rule with an endpoint that resolves to no net of
\* the candidate gets exactly one "<rule_type> endpoint missing" error
\* appended, and checking goes on with the next rule.
C10_EveryUnresolvableRuleReported ==
    [][(pc = "checking" /\ idx <= Len(rules) /\ Unresolvable(rules[idx]))
         => /\ errors' = Append(errors, MissingError(rules[idx]))
            /\ idx' = idx + 1 /\ pc' = "checking"]_vars

\* C10 (amended): every rule the loop of check_rules looks at, that is every
\* rule that is not waived (C_DIRECT between mosfet_source and mosfet_drain;
\* for task 6 the rules with a buck_en endpoint or the role pairs
\* buck_vin/buck_gnd and buck_vin/buck_fb), with an endpoint that resolves to
\* no net of the candidate gets exactly one "<rule_type> endpoint missing"
\* error appended and nothing else, and checking goes on with the next rule.
C10_UnresolvableCheckedRuleReported ==
    [][(/\ pc = "checking" /\ idx <= Len(rules)
        /\ ~RuleSkipped(rules[idx], task)
        /\ Unresolvable(rules[idx]))
         => /\ errors' = Append(errors, MissingError(rules[idx]))
            /\ idx' = idx + 1 /\ pc' = "checking"]_vars

\* C10 witness: the loop has reported a rule with an endpoint without fields
\* and one with a part the candidate lacks, and stands at the next rule.
C10_Witness ==
    /\ pc = "checking" /\ idx = 3
    /\ gen.components = <<>>
    /\ rules[1].endpoint_a = NoFields /\ rules[2].endpoint_a.part_id = "LM5050"
    /\ errors = << MissingError(rules[1]), MissingError(rules[2]) >>


\* the loop of check_rules is at a C_DIRECT rule both of whose endpoints
\* resolve to nets of the candidate
CapRuleAt ==
    /\ pc = "checking" /\ idx <= Len(rules)
    /\ rules[idx].rule_type = "C_DIRECT"
    /\ ResolveUncached(gen, rules[idx].endpoint_a) # {}
    /\ ResolveUncached(gen, rules[idx].endpoint_b) # {}

\* the outcome as stated for the net sets of the two sides
CapRuleOutcome(nets_a, nets_b) ==
    IF \E a \in nets_a, b \in nets_b :
           /\ a # b
           /\ \E c \in Range(gen.components) :
                  classify_passive(c) = "C" /\ _component_nets(c) = {a, b}
    THEN "pass"
    ELSE IF nets_a \cap nets_b # {} /\ \A a \in nets_a, b \in nets_b : a = b
    THEN "shorted"
    ELSE "missing"

\* the step appends what the outcome asks for: nothing, or one error of it
CapRuleReported ==
    LET outcome == CapRuleOutcome(ResolveUncached(gen, rules[idx].endpoint_a),
                                  ResolveUncached(gen, rules[idx].endpoint_b))
    IN IF outcome = "pass" THEN errors' = errors
       ELSE /\ Len(errors') = Len(errors) + 1
            /\ SubSeq(errors', 1, Len(errors)) = errors
            /\ StartsWith(errors'[Len(errors')], "C_DIRECT " \o outcome \o " between ")

\* C20 (as claimed): a C_DIRECT rule whose endpoints resolve to non-empty net
\* sets A and B passes exactly when some a in A and b in B, a # b, are the two
\* nets of one capacitor; else a 'shorted' error is reported exactly when A
\* and B share a net and hold no pair of distinct nets; else a 'missing'
\* error is reported.
C20_CapRuleOutcome ==
    [][CapRuleAt => CapRuleReported]_vars

\* C20 (amended): the same for every C_DIRECT rule that the loop does not
\* waive; a waived rule (between mosfet_source and mosfet_drain, or one of
\* the task 6 waivers) gets no error whatever the capacitors.
C20_CheckedCapRuleOutcome ==
    [][CapRuleAt =>
          IF RuleSkipped(rules[idx], task) THEN errors' = errors ELSE CapRuleReported]_vars

\* C20 witness: the loop has just reported 'shorted' for a C_DIRECT rule it
\* does not waive, the two sides being on one net.
C20_Witness ==
    /\ pc = "checking" /\ idx > 1
    /\ rules[idx - 1].rule_type = "C_DIRECT" /\ ~RuleSkipped(rules[idx - 1], task)
    /\ CapRuleOutcome(ResolveUncached(gen, rules[idx - 1].endpoint_a),
                      ResolveUncached(gen, rules[idx - 1].endpoint_b)) = "shorted"
    /\ errors # <<>>
    /\ StartsWith(errors[Len(errors)], "C_DIRECT shorted between ")

------------------------------------------------------------------------------
(* phase2_checks.py: the fast-fail constraints, for the task numbers that   *)
(* take none of its task-specific branches (6, 8 to 13 and 15 take some).   *)
(* A KG constraint is a record [type, pins, vdd_pin, gnd_pin, gate_pin].    *)

Constraint(type, pins, vdd_pin, gnd_pin, gate_pin) ==
    [type |-> type, pins |-> pins, vdd_pin |-> vdd_pin, gnd_pin |-> gnd_pin,
     gate_pin |-> gate_pin]

\* the overlay of KGByNumber with constraints on the supply and the MOSFET
KGConstrained ==
    [KGByNumber EXCEPT
        !.kg_component_map["MGJ2D121505SC"].generic_constraints =
            << Constraint("supply_pair", <<>>, "+VIN", "-VIN", NULL) >>,
        !.kg_component_map["BSC052N08NS5"].generic_constraints =
            << Constraint("must_be_connected", <<"1", "5">>, NULL, NULL, NULL),
               Constraint("driving_pair", <<>>, NULL, NULL, "4") >>]

get_constraints(store, part_id) ==
    IF HasComponent(store, part_id) THEN get_component(store, part_id).generic_constraints
    ELSE <<>>

\* _find_pin: the pins that match by identifier or by name, the first of
\* which is returned
PinsFound(comp, pin_key) ==
    SelectSeq(comp.pins, LAMBDA q : PyStr(q.pin_id) = pin_key \/ PyStr(q.pin_name) = pin_key)

_is_connected(pin_info) ==
    Truthy(pin_info.net) /\ Upper(pin_info.net) \notin {"NC", "__NOCONNECT"}

\* len(nets.get(net_name, {}).get("endpoints", [])) over index_snapshot
EndpointCount(snapshot, net_name) ==
    LET named == SelectSeq(snapshot.nets, LAMBDA n : n.name = net_name)
    IN IF named = <<>> THEN 0 ELSE Len(named[Len(named)].endpoints)

\* the errors of one constraint of one component
ConstraintErrors(snapshot, comp, constraint, allow_gate_float) ==
    LET ref == comp.ref
        found(key) == PinsFound(comp, key) # <<>>
        pin(key) == PinsFound(comp, key)[1]
        live(key) == found(key) /\ _is_connected(pin(key))
        vdd == constraint.vdd_pin
        gnd == constraint.gnd_pin
        gate == constraint.gate_pin
        pins == constraint.pins
    IN CASE constraint.type = "must_be_connected" ->
              Flatten([k \in DOMAIN pins |->
                  IF found(pins[k]) /\ ~_is_connected(pin(pins[k]))
                  THEN << ref \o ": pin " \o pins[k] \o " is unconnected" >> ELSE <<>>])
         [] constraint.type = "supply_pair" ->
              (IF ~live(PyStr(vdd))
               THEN << ref \o ": supply pin " \o PyStr(vdd) \o " missing net" >> ELSE <<>>)
              \o (IF ~live(PyStr(gnd))
                  THEN << ref \o ": ground pin " \o PyStr(gnd) \o " missing net" >> ELSE <<>>)
              \o (IF live(PyStr(vdd)) /\ live(PyStr(gnd))
                     /\ pin(PyStr(vdd)).net = pin(PyStr(gnd)).net
                  THEN << ref \o ": supply pair shorted (" \o PyStr(vdd) \o " and "
                          \o PyStr(gnd) \o " on " \o pin(PyStr(vdd)).net \o ")" >>
                  ELSE <<>>)
         [] constraint.type = "differential_pair_must_be_distinct" ->
              IF Len(pins) >= 2 /\ live(pins[1]) /\ live(pins[2])
                 /\ pin(pins[1]).net = pin(pins[2]).net
              THEN << ref \o ": differential pins on same net (" \o pins[1] \o "="
                      \o pin(pins[1]).net \o ")" >>
              ELSE <<>>
         [] constraint.type = "driving_pair" ->
              IF live(PyStr(gate))
              THEN IF ~allow_gate_float /\ EndpointCount(snapshot, pin(PyStr(gate)).net) <= 1
                   THEN << ref \o ": gate net appears floating (" \o PyStr(gate) \o " on "
                           \o pin(PyStr(gate)).net \o ")" >>
                   ELSE <<>>
              ELSE << ref \o ": gate pin " \o PyStr(gate) \o " missing net" >>
         [] OTHER -> <<>>

\* the checks of one part: each component of the part contributes what
\* `errs` gives for it
PerComponent(snapshot, errs(_)) ==
    Flatten([k \in DOMAIN snapshot.components |-> errs(snapshot.components[k])])

\* both pins found and on one net
SameNet(comp, key_a, key_b) ==
    /\ PinsFound(comp, key_a) # <<>> /\ PinsFound(comp, key_b) # <<>>
    /\ PinsFound(comp, key_a)[1].net = PinsFound(comp, key_b)[1].net

_check_acs37010_vref(snapshot) ==
    LET errs(comp) ==
            IF comp.part_id = "ACS37010" /\ SameNet(comp, "VREF", "GND")
               /\ Truthy(PinsFound(comp, "VREF")[1].net)
            THEN << comp.ref \o ": VREF should not be tied to GND" >> ELSE <<>>
    IN PerComponent(snapshot, errs)

_check_acs37010_ip_short(snapshot) ==
    LET errs(comp) ==
            IF comp.part_id = "ACS37010" /\ SameNet(comp, "IP+", "IP-")
               /\ _is_connected(PinsFound(comp, "IP+")[1])
            THEN << comp.ref \o ": IP+ and IP- must not be shorted ("
                    \o PinsFound(comp, "IP+")[1].net \o ")" >>
            ELSE <<>>
    IN PerComponent(snapshot, errs)

_check_mgj2d_vin_short(snapshot) ==
    LET errs(comp) ==
            IF comp.part_id = "MGJ2D121505SC" /\ SameNet(comp, "+VIN", "-VIN")
               /\ _is_connected(PinsFound(comp, "+VIN")[1])
            THEN << comp.ref \o ": +VIN and -VIN must not be shorted ("
                    \o PinsFound(comp, "+VIN")[1].net \o ")" >>
            ELSE <<>>
    IN PerComponent(snapshot, errs)


_is_passive_type(comp, passive_type) ==
    LET part_id == Strip(OrEmpty(comp.part_id))
        ref == Strip(OrEmpty(comp.ref))
    IN \/ part_id = passive_type
       \/ comp.category = "passive" /\ Upper(SubSeq(ref, 1, 1)) = passive_type

\* the nets of the pins of `comp` that carry `role`
RoleNets(comp, role) ==
    {comp.pins[k].net : k \in {j \in DOMAIN comp.pins :
                                  comp.pins[j].pin_role = role /\ Truthy(comp.pins[j].net)}}

_check_kelvin_source_short(snapshot) ==
    LET errs(comp) ==
            LET kelvin_pins == SelectSeq(comp.pins,
                                   LAMBDA q : q.pin_role = "mosfet_kelvin_source")
                source_nets == RoleNets(comp, "mosfet_source")
                kelvin_nets == RoleNets(comp, "mosfet_kelvin_source")
            IN Flatten([k \in DOMAIN kelvin_pins |->
                   IF ~Truthy(kelvin_pins[k].net) \/ Upper(kelvin_pins[k].net) = "NC"
                   THEN << comp.ref \o ": kelvin source pin must be connected to a net" >>
                   ELSE <<>>])
               \o (IF source_nets \cap kelvin_nets # {}
                   THEN << comp.ref \o ": kelvin source should not be shorted to source net ("
                           \o Sorted(source_nets \cap kelvin_nets)[1] \o ")" >>
                   ELSE <<>>)
    IN PerComponent(snapshot, errs)

\* the net sets of the passives of one type
PassiveNetSets(snapshot, passive_type) ==
    {{q.net : q \in {p \in Range(c.pins) : Truthy(p.net)}} :
        c \in {d \in Range(snapshot.components) : _is_passive_type(d, passive_type)}}

_check_bootstrap_caps(snapshot) ==
    LET capacitors == PassiveNetSets(snapshot, "C")
        errs(comp) ==
            LET hb == SelectSeq(comp.pins, LAMBDA q : q.pin_role = "halfbridge_hb")
                hs == SelectSeq(comp.pins, LAMBDA q : q.pin_role = "halfbridge_hs")
            IN IF /\ hb # <<>> /\ hs # <<>>
                  /\ Truthy(hb[1].net) /\ Truthy(hs[1].net)
                  /\ ~\E nets \in capacitors : hb[1].net \in nets /\ hs[1].net \in nets
               THEN << comp.ref \o ": bootstrap capacitor missing between HB and HS" >>
               ELSE <<>>
    IN PerComponent(snapshot, errs)

_check_ucc5390e_output_resistor(snapshot) ==
    LET resistor_nets == PassiveNetSets(snapshot, "R")
        errs(comp) ==
            LET out == PinsFound(comp, "OUT")
            IN IF /\ comp.part_id = "UCC5390E" /\ out # <<>> /\ Truthy(out[1].net)
                  /\ ~\E nets \in resistor_nets : out[1].net \in nets
               THEN << comp.ref \o ": output resistor missing on OUT net ("
                       \o out[1].net \o ")" >>
               ELSE <<>>
    IN PerComponent(snapshot, errs)

GATE_FLOAT_TASKS == {8, 9, 10, 11, 12}

_check_constraints(snapshot, store, task_id) ==
    LET errs(comp) ==
            LET constraints == get_constraints(store, comp.part_id)
            IN Flatten([k \in DOMAIN constraints |->
                   ConstraintErrors(snapshot, comp, constraints[k],
                                    task_id \in GATE_FLOAT_TASKS)])
    IN PerComponent(snapshot, errs)
       \o _check_acs37010_vref(snapshot)
       \o _check_kelvin_source_short(snapshot)
       \o _check_bootstrap_caps(snapshot)
       \o _check_ucc5390e_output_resistor(snapshot)

\* run_phase2_checks for a task number other than 6, 8 to 13 and 15, which
\* add task-specific checks
run_phase2_checks(snapshot, store, task_id) ==
    _check_constraints(snapshot, store, task_id)
    \o _check_acs37010_ip_short(snapshot)
    \o _check_mgj2d_vin_short(snapshot)

------------------------------------------------------------------------------
(* interface_checker.py *)

ALL_GATE_DRIVERS == {"UCC5390E", "UCC21710", "UCC27211", "UCC27511"}

_find_gate_drivers(snapshot) ==
    SelectSeq(snapshot.components, LAMBDA c : c.part_id \in ALL_GATE_DRIVERS)

_get_pin_net(comp, pin_id_or_name) ==
    LET found == SelectSeq(comp.pins, LAMBDA q : \/ PyStr(q.pin_id) = pin_id_or_name
                                                 \/ q.pin_name = pin_id_or_name)
    IN IF found = <<>> THEN NULL ELSE found[1].net

_is_not_connected(net) == ~Truthy(net) \/ net \in {"NC", "__NOCONNECT", "NOCONNECT"}

_check_isolated_supply_connections(snapshot) ==
    LET errs(supply) ==
            IF supply.part_id # "MGJ2D121505SC" THEN <<>>
            ELSE (IF _is_not_connected(_get_pin_net(supply, "7"))
                  THEN << supply.ref \o ": +VOUT (pin 7) not connected" >> ELSE <<>>)
                 \o (IF _is_not_connected(_get_pin_net(supply, "6"))
                     THEN << supply.ref \o ": 0V (pin 6) not connected" >> ELSE <<>>)
                 \o (IF _is_not_connected(_get_pin_net(supply, "5"))
                     THEN << supply.ref \o ": -VOUT (pin 5) not connected" >> ELSE <<>>)
    IN PerComponent(snapshot, errs)

MOSFET_PATTERNS == {"IMZA", "IMLT", "IMT", "IMW", "BSC"}

_is_mosfet(part_id) == \E p \in MOSFET_PATTERNS : Contains(Upper(part_id), p)

_find_mosfets(snapshot) == SelectSeq(snapshot.components, LAMBDA c : _is_mosfet(c.part_id))

\* the components of that ref, the first of which the code returns; empty
\* for None
_find_component_by_ref(snapshot, ref) == SelectSeq(snapshot.components, LAMBDA c : c.ref = ref)

\* index['nets'].get(net, {}).get('endpoints', [])
IndexedEndpoints(snapshot, net) ==
    LET at == SelectSeq(snapshot.nets, LAMBDA n : n.name = net)
    IN IF at = <<>> THEN <<>> ELSE at[Len(at)].endpoints

\* the part ids of the components the endpoints of a net name
PartsOn(snapshot, net) ==
    LET eps == IndexedEndpoints(snapshot, net)
    IN [k \in DOMAIN eps |->
          Only({IF comp = <<>> THEN NULL ELSE comp[1].part_id :
                  comp \in {_find_component_by_ref(snapshot, OrEmpty(eps[k].ref))}})]

\* the first pin of that role in the KG entry, else the built-in table; None
\* as NULL.  For a KG with at most one pin per role.
RolePin(part_id, store, role, builtin) ==
    LET keys == IF HasComponent(store, part_id)
                THEN {k \in DOMAIN get_component(store, part_id).pin_roles :
                        get_component(store, part_id).pin_roles[k] = role}
                ELSE {}
    IN CASE Cardinality(keys) = 1 -> CHOOSE k \in keys : TRUE
         [] keys = {} /\ part_id \in DOMAIN builtin -> builtin[part_id]
         [] keys = {} /\ part_id \notin DOMAIN builtin -> NULL

_get_mosfet_gate_pin(part_id, store) ==
    RolePin(part_id, store, "mosfet_gate",
            "IMZA65R015M2H" :> "4" @@ "IMT65R033M2H" :> "1" @@ "IMLT65R015M2H" :> "8" @@
            "IMW65R015M2H" :> "1" @@ "BSC052N08NS5" :> "4")

_get_mosfet_ks_pin(part_id, store) ==
    RolePin(part_id, store, "mosfet_kelvin_source",
            "IMZA65R015M2H" :> "3" @@ "IMT65R033M2H" :> "2" @@ "IMLT65R015M2H" :> "7")

_get_mosfet_source_pins(part_id, store) ==
    IF HasComponent(store, part_id)
    THEN {k \in DOMAIN get_component(store, part_id).pin_roles :
            get_component(store, part_id).pin_roles[k] = "mosfet_source"}
    ELSE {}

_get_driver_output_pins(part_id) ==
    CASE part_id = "UCC5390E" -> <<"6">>
      [] part_id = "UCC21710" -> <<"4", "6">>
      [] part_id = "UCC27211" -> <<"3", "8">>
      [] part_id = "UCC27511" -> <<"2", "3">>
      [] OTHER -> <<>>

_get_driver_gnd2_pin(part_id) ==
    CASE part_id = "UCC5390E" -> "7"
      [] part_id = "UCC21710" -> "3"
      [] OTHER -> NULL

\* the search passing through resistors only
RECURSIVE GatePathNets_resistors_only(_, _)
GatePathNets_resistors_only(snapshot, visited) ==
    LET through == {c \in Range(snapshot.components) :
                      /\ c.part_id = "R"
                      /\ \E net \in visited : \E e \in Range(IndexedEndpoints(snapshot, net)) :
                            Only({comp # <<>> /\ comp[1] = c :
                                    comp \in {_find_component_by_ref(snapshot, OrEmpty(e.ref))}})}
        more == {p.net : p \in UNION {Range(c.pins) : c \in through}}
        next == visited \cup {net \in more : Truthy(net)}
    IN IF next = visited THEN visited ELSE GatePathNets_resistors_only(snapshot, next)

\* the nets the search through resistors and diodes visits
RECURSIVE GatePathNets(_, _)
GatePathNets(snapshot, visited) ==
    LET through == {c \in Range(snapshot.components) :
                      /\ c.part_id \in {"R", "D"}
                      /\ \E net \in visited : \E e \in Range(IndexedEndpoints(snapshot, net)) :
                            Only({comp # <<>> /\ comp[1] = c :
                                    comp \in {_find_component_by_ref(snapshot, OrEmpty(e.ref))}})}
        more == {p.net : p \in UNION {Range(c.pins) : c \in through}}
        next == visited \cup {net \in more : Truthy(net)}
    IN IF next = visited THEN visited ELSE GatePathNets(snapshot, next)

_check_path_to_mosfet_gate(start_net, mosfet_gate_nets, snapshot) ==
    GatePathNets(snapshot, {start_net}) \cap mosfet_gate_nets # {}

\* the errors of one check, driver by driver and output pin by output pin
PerOutputPin(snapshot, errs(_, _, _)) ==
    LET OfDriver(driver) ==
            LET pins == _get_driver_output_pins(driver.part_id)
            IN Flatten([k \in DOMAIN pins |->
                   Only({errs(driver, pins[k], out_net) :
                           out_net \in {_get_pin_net(driver, pins[k])}})])
    IN PerComponent(snapshot, LAMBDA c : IF c.part_id \in ALL_GATE_DRIVERS
                                         THEN OfDriver(c) ELSE <<>>)

_check_gate_driver_to_mosfet(snapshot, store) ==
    LET Errs(mosfet_gate_nets) ==
            PerOutputPin(snapshot, LAMBDA driver, out_pin, out_net :
                IF _is_not_connected(out_net)
                THEN << driver.ref \o ": Gate driver output pin " \o out_pin \o " not connected" >>
                ELSE IF ~_check_path_to_mosfet_gate(out_net, mosfet_gate_nets, snapshot)
                THEN << driver.ref \o ": Gate driver output (pin " \o out_pin \o ", net '"
                        \o out_net \o "') does not connect to any MOSFET gate" >>
                ELSE <<>>)
    IN Only({Errs(mosfet_gate_nets) :
               mosfet_gate_nets \in
                 {{net \in UNION {UNION {IF gate_pin = NULL THEN {}
                                         ELSE {_get_pin_net(m, gate_pin)} :
                                           gate_pin \in {_get_mosfet_gate_pin(m.part_id, store)}} :
                                    m \in Range(_find_mosfets(snapshot))} :
                     Truthy(net) /\ net # "NC"}}})

_check_gate_resistors(snapshot) ==
    PerOutputPin(snapshot, LAMBDA driver, out_pin, out_net :
        IF _is_not_connected(out_net) THEN <<>>
        ELSE Only({
               IF "R" \in Range(parts) THEN <<>>
               ELSE LET at == SelectSeq([k \in DOMAIN parts |-> k],
                                        LAMBDA k : parts[k] # NULL /\ _is_mosfet(parts[k]))
                    IN [k \in DOMAIN at |->
                          driver.ref \o ": Gate driver output (pin " \o out_pin
                          \o ") connects directly to MOSFET "
                          \o PyStr(IndexedEndpoints(snapshot, out_net)[at[k]].ref)
                          \o " without gate resistor"] :
               parts \in {PartsOn(snapshot, out_net)}}))

_check_kelvin_source_connections(snapshot, store) ==
    LET mosfets == _find_mosfets(snapshot)
        \* the net of a pin when the pin carries one
        Live(m, pin) == {net \in {_get_pin_net(m, pin)} : Truthy(net) /\ net # "NC"}
        KsNets(m) == UNION {IF pin = NULL THEN {} ELSE Live(m, pin) :
                              pin \in {_get_mosfet_ks_pin(m.part_id, store)}}
        SourceNets(m) == UNION {Live(m, pin) : pin \in _get_mosfet_source_pins(m.part_id, store)}
        Errs(ks_nets, source_nets) ==
            PerComponent(snapshot, LAMBDA driver :
                Only({
                  IF driver.part_id \notin {"UCC5390E", "UCC21710"} THEN <<>>
                  ELSE IF _is_not_connected(gnd2_net)
                  THEN << driver.ref \o ": Isolated gate driver GND2 (pin "
                          \o _get_driver_gnd2_pin(driver.part_id) \o ") not connected" >>
                  ELSE IF gnd2_net \in ks_nets THEN <<>>
                  ELSE LET on == SelectSeq([k \in DOMAIN mosfets |-> k],
                                           LAMBDA k : gnd2_net \in source_nets[k])
                           \* power_source_nets[gnd2_net]: the last MOSFET written
                           mosfet_ref == mosfets[on[Len(on)]].ref
                           ks_pin == _get_mosfet_ks_pin(
                                         _find_component_by_ref(snapshot, mosfet_ref)[1].part_id,
                                         store)
                       IN IF on # <<>> /\ ks_pin # NULL
                          THEN << driver.ref \o ": Gate driver GND2 connects to power Source of "
                                  \o mosfet_ref \o ", but should connect to Kelvin Source (pin "
                                  \o ks_pin \o ") to avoid common-source inductance" >>
                          ELSE <<>> :
                  gnd2_net \in {IF driver.part_id \in {"UCC5390E", "UCC21710"}
                                THEN _get_pin_net(driver, _get_driver_gnd2_pin(driver.part_id))
                                ELSE NULL}}))
    IN Only({Errs(UNION Range(n.ks), n.source) :
               n \in {[ks |-> [k \in DOMAIN mosfets |-> KsNets(mosfets[k])],
                       source |-> [k \in DOMAIN mosfets |-> SourceNets(mosfets[k])]]}})

_check_bootstrap_connections(snapshot) ==
    LET Caps(net) == LET eps == IndexedEndpoints(snapshot, net)
                         parts == PartsOn(snapshot, net)
                     IN {eps[k].ref : k \in {j \in DOMAIN eps : parts[j] = "C"}}
    IN PerComponent(snapshot, LAMBDA driver :
          Only({
            IF driver.part_id # "UCC27211" THEN <<>>
            ELSE IF _is_not_connected(n[1])
            THEN << driver.ref \o ": Bootstrap pin HB (pin 2) not connected" >>
            ELSE IF _is_not_connected(n[2])
            THEN << driver.ref \o ": Switch node HS (pin 4) not connected" >>
            ELSE IF Caps(n[1]) \cap Caps(n[2]) = {}
            THEN << driver.ref \o ": No bootstrap capacitor found between HB (pin 2, net "
                    \o n[1] \o ") and HS (pin 4, net " \o n[2] \o ")" >>
            ELSE <<>> :
            n \in {<<_get_pin_net(driver, "2"), _get_pin_net(driver, "4")>>}}))

check_interfaces(snapshot, store) ==
    _check_gate_driver_to_mosfet(snapshot, store)
    \o _check_gate_resistors(snapshot)
    \o _check_kelvin_source_connections(snapshot, store)
    \o _check_isolated_supply_connections(snapshot)
    \o _check_bootstrap_connections(snapshot)

------------------------------------------------------------------------------
(* system_topology_checker.py, for the templates of the dual active bridge  *)
(* and of the two inverters.                                                *)

\* the templates of tasks 20, 22 and 23
TASK_TEMPLATES ==
    20 :> [name |-> "Dual Active Bridge Converter", min_mosfets |-> 8, min_gate_drivers |-> 8,
           min_isolated_supplies |-> 2, requires_transformer |-> TRUE,
           requires_blocking_cap |-> TRUE, requires_resonant_inductor |-> TRUE,
           topology_type |-> "dab"] @@
    22 :> [name |-> "3-Phase Motor Drive", min_mosfets |-> 6, min_gate_drivers |-> 6,
           min_isolated_supplies |-> 3, topology_type |-> "3ph_inverter"] @@
    23 :> [name |-> "Single-Phase Grid Inverter", min_mosfets |-> 4, min_gate_drivers |-> 4,
           min_isolated_supplies |-> 2, topology_type |-> "1ph_fullbridge"]

is_complex_task(task_id) == task_id \in DOMAIN TASK_TEMPLATES

\* the counts the templates bound
_count_components(snapshot) ==
    LET IsMosfet(c) == \E p \in MOSFET_PATTERNS : Contains(Upper(c.part_id), p)
        Count(Test(_)) == Len(SelectSeq(snapshot.components, Test))
        Other(part_id) == Count(LAMBDA c : ~IsMosfet(c) /\ c.part_id = part_id)
    IN [mosfets |-> Count(IsMosfet),
        gate_drivers |-> Count(LAMBDA c : ~IsMosfet(c) /\ c.part_id \in ALL_GATE_DRIVERS),
        isolated_supplies |-> Other("MGJ2D121505SC"),
        transformers |-> Other("transformer_PQ5050"),
        film_caps |-> Other("C_film"),
        power_inductors |-> Other("Inductor_power"),
        inductors |-> Other("L")]

_check_component_counts(counts, template, task_id) ==
    LET head == "Task " \o ToString(task_id) \o " (" \o template.name \o ") requires at least "
    IN (IF counts.mosfets < template.min_mosfets
        THEN << head \o ToString(template.min_mosfets) \o " MOSFETs, but only "
                \o ToString(counts.mosfets) \o " found" >> ELSE <<>>)
       \o (IF counts.gate_drivers < template.min_gate_drivers
           THEN << head \o ToString(template.min_gate_drivers) \o " gate drivers, but only "
                   \o ToString(counts.gate_drivers) \o " found" >> ELSE <<>>)
       \o (IF counts.isolated_supplies < template.min_isolated_supplies
           THEN << head \o ToString(template.min_isolated_supplies)
                   \o " isolated power supplies, but only "
                   \o ToString(counts.isolated_supplies) \o " found" >> ELSE <<>>)

_check_vbus_decoupling(snapshot, task_id) ==
    LET vbus_nets == SelectSeq(snapshot.nets, LAMBDA n :
                        /\ Contains(Upper(n.name), "VBUS") \/ Contains(Upper(n.name), "VIN")
                        /\ \E e \in Range(n.endpoints) : e.pin_role = "mosfet_drain")
        IsCap(ref) == LET named == SelectSeq(snapshot.components, LAMBDA c : c.ref = ref)
                      IN named # <<>> /\ named[1].part_id = "C"
        cap_count(n) == Len(SelectSeq(n.endpoints, LAMBDA e : IsCap(e.ref)))
    IN Flatten([k \in DOMAIN vbus_nets |->
           IF task_id \in 17..23 /\ cap_count(vbus_nets[k]) < 8
           THEN << "VBUS net '" \o vbus_nets[k].name \o "' has only "
                   \o ToString(cap_count(vbus_nets[k])) \o " decoupling capacitors. "
                   \o "High dv/dt applications MUST have at least 8 capacitors." >>
           ELSE <<>>])

PATH_PART_IDS == {"R", "C", "C_film", "Inductor_power", "L"}

INDUCTOR_IDS == {"Inductor_power", "L"}

\* pin_nets.get(num, ''): the net of the last pin entry numbered num
PinNet(comp, num) ==
    LET at == SelectSeq(comp.pins, LAMBDA p : PyStr(p.pin_id) = num)
    IN IF at = <<>> THEN "" ELSE at[Len(at)].net

\* the one net a group of pins is on, None when there is none or several
GroupNet(comp, nums) ==
    LET live == {net \in {PinNet(comp, ToString(n)) : n \in nums} :
                    Truthy(net) /\ net # "NC"}
    IN IF Cardinality(live) = 1 THEN CHOOSE net \in live : TRUE ELSE NULL

_extract_two_terminal_nets(comp) ==
    LET live == SelectSeq(comp.pins, LAMBDA p : Truthy(p.net) /\ p.net # "NC")
        seen == FirstOccurrences([k \in DOMAIN live |-> live[k].net], {})
    IN IF Len(seen) < 2 THEN <<NULL, NULL>> ELSE <<seen[1], seen[2]>>

_extract_inductor_connections(comp) ==
    Only({[ref |-> comp.ref, part_id |-> comp.part_id,
           terminal_a_net |-> nets[1], terminal_b_net |-> nets[2]] :
             nets \in {IF comp.part_id = "L" THEN _extract_two_terminal_nets(comp)
                       ELSE <<GroupNet(comp, 1..6), GroupNet(comp, 7..12)>>}})

_extract_transformer_connections(comp) ==
    [ref |-> comp.ref,
     pri1_net |-> GroupNet(comp, 1..3), pri2_net |-> GroupNet(comp, 4..6),
     sec1_net |-> GroupNet(comp, 7..9), sec2_net |-> GroupNet(comp, 10..12)]

\* a MOSFET's nets by KG pin role, else by the built-in pinouts; a key the
\* code leaves out of the dict reads as None.  For a KG with at most one pin
\* per role.
_extract_mosfet_connections(comp, store) ==
    LET pin_roles == IF HasComponent(store, comp.part_id)
                     THEN get_component(store, comp.part_id).pin_roles ELSE NoRoles
        fallback == \A k \in DOMAIN pin_roles : pin_roles[k] # "mosfet_drain"
        imza == comp.part_id = "IMZA65R015M2H"
        bsc == ~imza /\ Contains(Upper(comp.part_id), "BSC")
        \* the pin number whose net the role reads, "" for no pin
        PinOf(role, imza_pin, bsc_pin) ==
            LET keys == {k \in DOMAIN pin_roles : pin_roles[k] = role}
            IN CASE fallback /\ imza -> imza_pin
                 [] fallback /\ bsc -> bsc_pin
                 [] (~fallback \/ (~imza /\ ~bsc)) /\ keys = {} -> ""
                 [] (~fallback \/ (~imza /\ ~bsc)) /\ Cardinality(keys) = 1 ->
                      CHOOSE k \in keys : TRUE
        pin_of == [role \in {"drain", "source", "gate", "ks"} |->
                     CASE role = "drain" -> PinOf("mosfet_drain", "1", "5")
                       [] role = "source" -> PinOf("mosfet_source", "2", "1")
                       [] role = "gate" -> PinOf("mosfet_gate", "4", "4")
                       [] role = "ks" -> PinOf("mosfet_kelvin_source", "3", "")]
        net == [role \in DOMAIN pin_of |->
                  IF pin_of[role] = "" THEN NULL ELSE PinNet(comp, pin_of[role])]
    IN Only({[ref |-> comp.ref, part_id |-> comp.part_id,
              drain_net |-> n["drain"], source_net |-> n["source"],
              gate_net |-> n["gate"], ks_net |-> n["ks"]] : n \in {net}})

\* the component lists of the power graph (its net index is read by none of
\* the verifications below)
_build_power_graph(snapshot, store) ==
    LET kind == [k \in DOMAIN snapshot.components |->
                   LET part_id == snapshot.components[k].part_id
                   IN IF \E p \in MOSFET_PATTERNS : Contains(Upper(part_id), p) THEN "mosfet"
                      ELSE IF part_id \in INDUCTOR_IDS THEN "inductor"
                      ELSE IF part_id = "transformer_PQ5050" THEN "transformer"
                      ELSE "other"]
        Info(k) == CASE kind[k] = "mosfet" ->
                          _extract_mosfet_connections(snapshot.components[k], store)
                     [] kind[k] = "inductor" ->
                          _extract_inductor_connections(snapshot.components[k])
                     [] kind[k] = "transformer" ->
                          _extract_transformer_connections(snapshot.components[k])
                     [] kind[k] = "other" -> NULL
    IN Only({[g \in {"mosfets", "inductors", "transformers"} |->
                 LET want == IF g = "mosfets" THEN "mosfet"
                             ELSE IF g = "inductors" THEN "inductor" ELSE "transformer"
                     at == SelectSeq([k \in DOMAIN info |-> k], LAMBDA k : info[k][1] = want)
                 IN [j \in DOMAIN at |-> info[at[j]][2]]] :
               info \in {[k \in DOMAIN kind |-> <<kind[k], Info(k)>>]}})

_is_input_supply_net(net_name) ==
    Truthy(net_name)
    /\ \E p \in {"VIN", "VBUS", "VDC", "VBAT", "V+"} : Contains(Upper(net_name), p)

_is_ground_net(net_name) ==
    Truthy(net_name)
    /\ \E p \in {"GND", "PGND", "VSS", "COM", "GROUND"} : Contains(Upper(net_name), p)

_resolve_named_net(snapshot, desired_name) ==
    LET named == SelectSeq(snapshot.nets, LAMBDA n : Upper(PyStr(n.name)) = Upper(desired_name))
    IN IF named = <<>> THEN NULL ELSE named[1].name

\* the edges <<net, neighbour, part_id>> of the passive net graph
_build_passive_net_graph(snapshot, allowed_parts) ==
    UNION {UNION {IF Truthy(ends[1]) /\ Truthy(ends[2]) /\ ends[1] # ends[2]
                  THEN {<<ends[1], ends[2], c.part_id>>, <<ends[2], ends[1], c.part_id>>}
                  ELSE {} :
                     ends \in {IF c.part_id = "Inductor_power"
                               THEN Only({<<ind.terminal_a_net, ind.terminal_b_net>> :
                                            ind \in {_extract_inductor_connections(c)}})
                               ELSE _extract_two_terminal_nets(c)}} :
              c \in {d \in Range(snapshot.components) : d.part_id \in allowed_parts}}

\* the states <<net, has_film, has_ind>> the breadth-first search visits
RECURSIVE SearchStates(_, _)
SearchStates(net_graph, seen) ==
    LET more == {<<x[2][2], x[1][2] \/ x[2][3] = "C_film", x[1][3] \/ x[2][3] \in INDUCTOR_IDS>> :
                    x \in {y \in seen \X net_graph : y[2][1] = y[1][1]}}
    IN IF more \subseteq seen THEN seen ELSE SearchStates(net_graph, seen \cup more)

_path_exists(snapshot, start_net, end_net, allowed_parts, require_film, require_inductor) ==
    IF ~Truthy(start_net) \/ ~Truthy(end_net) THEN FALSE
    ELSE IF start_net = end_net THEN ~(require_film \/ require_inductor)
    ELSE \E s \in SearchStates(_build_passive_net_graph(snapshot, allowed_parts),
                               {<<start_net, FALSE, FALSE>>}) :
            /\ s[1] = end_net
            /\ ~require_film \/ s[2]
            /\ ~require_inductor \/ s[3]

topology_nets_connected(snapshot, net_a, net_b, allowed_parts) ==
    /\ Truthy(net_a) /\ Truthy(net_b)
    /\ net_a = net_b \/ _path_exists(snapshot, net_a, net_b, allowed_parts, FALSE, FALSE)

\* the result pair (half bridge or None, errors) as a record
_infer_half_bridge_on_vsw(mosfets, vsw_net) ==
    LET none(msg) == [found |-> FALSE, hb |-> NULL, errors |-> <<msg>>]
        score(p) == (IF _is_ground_net(p.gnd) THEN 3 ELSE 0)
                    + (IF ~_is_ground_net(p.bus) THEN 1 ELSE 0)
                    + (IF _is_input_supply_net(p.bus) THEN 1 ELSE 0)
        \* the (hs, ls) pairs in loop order, each with its score
        Pairs(hs_candidates, ls_candidates) ==
            SelectSeq(
                Flatten([i \in DOMAIN hs_candidates |->
                           [j \in DOMAIN ls_candidates |->
                              Only({<<p, score(p)>> :
                                      p \in {[vsw |-> vsw_net, hs |-> hs_candidates[i],
                                              ls |-> ls_candidates[j],
                                              bus |-> hs_candidates[i].drain_net,
                                              gnd |-> ls_candidates[j].source_net]}})]]),
                LAMBDA q : q[1].hs.ref # q[1].ls.ref)
        \* the first pair of the highest score
        Best(pairs) ==
            SelectSeq(pairs, LAMBDA q : \A k \in DOMAIN pairs : pairs[k][2] <= q[2])[1][1]
        Result(hs_candidates, ls_candidates, pairs) ==
            IF hs_candidates = <<>>
            THEN none("no high-side candidate with source=VSW (" \o vsw_net \o ")")
            ELSE IF ls_candidates = <<>>
            THEN none("no low-side candidate with drain=VSW (" \o vsw_net \o ")")
            ELSE IF pairs = <<>> THEN none("cannot form half-bridge around " \o vsw_net)
            ELSE Only({[found |-> TRUE, hb |-> best,
                        errors |-> IF _is_ground_net(best.gnd) THEN <<>>
                                   ELSE << "LS source (" \o best.gnd
                                           \o ") does not look like a ground net" >>] :
                          best \in {Best(pairs)}})
    IN IF ~Truthy(vsw_net) THEN none("missing VSW net")
       ELSE Only({Only({Result(c[1], c[2], pairs) : pairs \in {Pairs(c[1], c[2])}}) :
                    c \in {<< SelectSeq(mosfets, LAMBDA m : m.source_net = vsw_net
                                                            /\ Truthy(m.drain_net)),
                              SelectSeq(mosfets, LAMBDA m : m.drain_net = vsw_net
                                                            /\ Truthy(m.source_net)) >>}})

_infer_full_bridge_from_vsw(mosfets, vsw_nets) ==
    LET Result(r1, r2) ==
            IF ~r1.found \/ ~r2.found
            THEN [found |-> FALSE, bridge |-> NULL, errors |-> r1.errors \o r2.errors]
            ELSE [found |-> TRUE,
                  bridge |-> [vsw_nodes |-> <<r1.hb.vsw, r2.hb.vsw>>, bus |-> r1.hb.bus,
                              gnd |-> r1.hb.gnd],
                  errors |-> r1.errors \o r2.errors \o
                      (IF r1.hb.bus # r2.hb.bus \/ r1.hb.gnd # r2.hb.gnd
                       THEN << "half-bridges do not share common bus/gnd (HB1 bus/gnd="
                               \o r1.hb.bus \o "/" \o r1.hb.gnd \o ", HB2 bus/gnd="
                               \o r2.hb.bus \o "/" \o r2.hb.gnd \o ")" >>
                       ELSE <<>>)]
    IN IF Len(vsw_nets) # 2
       THEN [found |-> FALSE, bridge |-> NULL,
             errors |-> <<"expected exactly 2 switch nodes for full-bridge">>]
       ELSE Only({Result(r[1], r[2]) :
                    r \in {[k \in 1..2 |-> _infer_half_bridge_on_vsw(mosfets, vsw_nets[k])]}})

\* the half bridges as a set: the code lists them in the iteration order of
\* a set of net names
_enumerate_half_bridges(mosfets) ==
    {[vsw |-> x[1].source_net, bus |-> x[1].drain_net, gnd |-> x[2].source_net] :
        x \in {y \in Range(mosfets) \X Range(mosfets) :
                 /\ Truthy(y[1].source_net) /\ y[1].source_net = y[2].drain_net
                 /\ y[1].ref # y[2].ref
                 /\ Truthy(y[1].drain_net) /\ Truthy(y[2].source_net)
                 /\ _is_ground_net(y[2].source_net)
                 /\ ~_is_ground_net(y[1].drain_net)}}

\* the candidates as a set; their order in the code follows the order of
\* the half bridges
_infer_bridge_candidates(mosfets) ==
    LET Grouped(hbs) ==
            LET vsws(bus, gnd) == {hb.vsw : hb \in {h \in hbs : h.bus = bus /\ h.gnd = gnd}}
            IN {Only({[bus |-> hb.bus, gnd |-> hb.gnd, vsw_nodes |-> Sorted(nodes)] :
                        nodes \in {vsws(hb.bus, hb.gnd)}}) :
                  hb \in {h \in hbs : Cardinality(vsws(h.bus, h.gnd)) >= 2}}
    IN UNION {Grouped(hbs) : hbs \in {_enumerate_half_bridges(mosfets)}}

_bridge_covers_terms(snapshot, vsw_nodes, transformer_terms, allowed_parts) ==
    /\ \A t \in 1..2 : Truthy(transformer_terms[t])
    /\ vsw_nodes # <<>>
    /\ \A t \in 1..2 : \E k \in DOMAIN vsw_nodes :
          topology_nets_connected(snapshot, vsw_nodes[k], transformer_terms[t], allowed_parts)

_bridge_transformer_side(snapshot, vsw_nodes, pri_terms, sec_terms, allowed_parts) ==
    Only({IF ok["pri"] /\ ok["sec"] THEN "both"
          ELSE IF ok["pri"] THEN "pri" ELSE IF ok["sec"] THEN "sec" ELSE "none" :
             ok \in {[side \in {"pri", "sec"} |->
                        _bridge_covers_terms(snapshot, vsw_nodes,
                                             IF side = "pri" THEN pri_terms ELSE sec_terms,
                                             allowed_parts)]}})

\* the tuple of two nets as Python prints it
PairRepr(a, b) == "('" \o a \o "', '" \o b \o "')"

\* for MOSFETs among whose candidates at most one other bridge reaches the
\* terminals, so that the order of the candidates does not matter
_infer_other_bridge_connected_to_terms(snapshot, mosfets, excluded_bus_gnd, transformer_terms, allowed_parts) ==
    LET Result(covering) ==
            CASE covering = {} ->
                   [found |-> FALSE, bridge |-> NULL,
                    errors |-> << "cannot find a second full-bridge connected to "
                                  \o "transformer terminals "
                                  \o PairRepr(transformer_terms[1], transformer_terms[2]) >>]
              [] Cardinality(covering) = 1 ->
                   Only({[found |-> TRUE,
                          bridge |-> [bus |-> b.bus, gnd |-> b.gnd,
                                      vsw_nodes |-> SubSeq(b.vsw_nodes, 1, 2)],
                          errors |-> <<>>] : b \in covering})
    IN Only({Result(covering) :
               covering \in {{b \in _infer_bridge_candidates(mosfets) :
                                /\ <<b.bus, b.gnd>> # excluded_bus_gnd
                                /\ _bridge_covers_terms(snapshot, b.vsw_nodes,
                                                        transformer_terms, allowed_parts)}}})

_select_input_bridge(snapshot, bridges) ==
    LET Result(vin_net, candidates) ==
            LET preferred == SelectSeq(bridges, LAMBDA b :
                                b.bus = vin_net \/ Contains(Upper(PyStr(b.bus)), "VIN"))
            IN IF Truthy(vin_net) /\ preferred # <<>>
               THEN [found |-> TRUE, bridge |-> preferred[1], errors |-> <<>>]
               ELSE IF candidates = <<>>
               THEN [found |-> FALSE, bridge |-> NULL,
                     errors |-> << "cannot identify VIN/VBUS-referenced input bridge "
                                   \o "(bus net not VIN/VBUS-like)" >>]
               ELSE [found |-> TRUE, bridge |-> candidates[1], errors |-> <<>>]
    IN Only({Result(v[1], v[2]) :
               v \in {<< _resolve_named_net(snapshot, "VIN"),
                         SelectSeq(bridges, LAMBDA b : _is_input_supply_net(b.bus)) >>}})

_exists_required_tank_path(snapshot, starts, targets, require_film, require_inductor, allowed_parts) ==
    \E i \in DOMAIN starts, j \in DOMAIN targets :
        _path_exists(snapshot, starts[i], targets[j], allowed_parts,
                     require_film, require_inductor)

TankError ==
    "DAB: missing series tank elements (need both C_film and inductor on VIN-side path to transformer)"

_verify_dab(power_graph, snapshot) ==
    LET mosfets == power_graph.mosfets
        Tagged(tag, errs) == [k \in DOMAIN errs |-> tag \o errs[k]]
        \* the steps from the bridge inference on; t holds the transformer
        \* terminals, named the two named ports
        Bridges(t, named) ==
            LET Side(bridge) ==
                    _bridge_transformer_side(snapshot, bridge.vsw_nodes, t.pri, t.sec,
                                             PATH_PART_IDS)
                Tank(input_bridge, input_side) ==
                    IF input_side = "none"
                    THEN <<"DAB: input bridge is not connected to transformer (unexpected wiring)">>
                    ELSE IF ~_exists_required_tank_path(
                                snapshot, input_bridge.vsw_nodes,
                                IF input_side = "pri" THEN t.pri ELSE t.sec,
                                TRUE, TRUE, PATH_PART_IDS)
                    THEN <<TankError>>
                    ELSE <<>>
                Input(input) ==
                    IF input.errors # <<>> THEN Tagged("DAB: ", input.errors)
                    ELSE Only({Tank(input.bridge, side[input.bridge]) :
                                 side \in {[b \in {input.bridge} |-> Side(b)]}})
                Other(output_bridge, other) ==
                    IF other.errors # <<>> THEN Tagged("DAB: ", other.errors)
                    ELSE Only({Input(input) :
                                 input \in {_select_input_bridge(
                                               snapshot, <<output_bridge, other.bridge>>)}})
                Output(output_bridge, out_side) ==
                    IF out_side = "none"
                    THEN << "DAB: output bridge switch nodes (" \o named[1] \o ", " \o named[2]
                            \o ") are not connected to transformer (pri="
                            \o PairRepr(t.pri[1], t.pri[2]) \o ", sec="
                            \o PairRepr(t.sec[1], t.sec[2]) \o ")" >>
                    ELSE Only({Other(output_bridge, other) :
                                 other \in {_infer_other_bridge_connected_to_terms(
                                               snapshot, mosfets,
                                               <<output_bridge.bus, output_bridge.gnd>>,
                                               IF out_side = "pri" THEN t.sec ELSE t.pri,
                                               PATH_PART_IDS)}})
                Named(out) ==
                    IF out.errors # <<>> THEN Tagged("DAB: output bridge: ", out.errors)
                    ELSE Only({Output(out.bridge, side[out.bridge]) :
                                 side \in {[b \in {out.bridge} |-> Side(b)]}})
            IN IF ~Truthy(named[1]) \/ ~Truthy(named[2])
               THEN <<"DAB: expected named ports VSW_1 and VSW_2">>
               ELSE Only({Named(out) : out \in {_infer_full_bridge_from_vsw(mosfets, named)}})
    IN IF Len(mosfets) < 8 THEN <<"DAB requires at least 8 MOSFETs (4 per bridge)">>
       ELSE IF Len(power_graph.transformers) < 1 THEN <<"DAB requires a transformer">>
       ELSE Only({IF \E k \in 1..2 : ~Truthy(t.pri[k]) \/ ~Truthy(t.sec[k])
                  THEN << "DAB: transformer primary/secondary nets are incomplete "
                          \o "(check transformer pin wiring)" >>
                  ELSE Only({Bridges(t, named) :
                               named \in {[k \in 1..2 |-> _resolve_named_net(
                                             snapshot, IF k = 1 THEN "VSW_1" ELSE "VSW_2")]}}) :
                     t \in {[pri |-> <<power_graph.transformers[1].pri1_net,
                                       power_graph.transformers[1].pri2_net>>,
                             sec |-> <<power_graph.transformers[1].sec1_net,
                                       power_graph.transformers[1].sec2_net>>]}})

\* "; ".join
RECURSIVE JoinSemicolon(_)
JoinSemicolon(seq) ==
    IF seq = <<>> THEN ""
    ELSE IF Len(seq) = 1 THEN seq[1]
    ELSE seq[1] \o "; " \o JoinSemicolon(Tail(seq))

\* the shared bus/ground test left to the bus alone
_infer_multi_half_bridges_bus_only(mosfets, vsw_nets, require_input_bus) ==
    LET Result(r) ==
            LET errs == Flatten([k \in DOMAIN r |->
                           IF r[k].errors # <<>>
                           THEN << vsw_nets[k] \o ": " \o JoinSemicolon(r[k].errors) >>
                           ELSE <<>>])
                half_bridges == SelectSeq(r, LAMBDA x : x.found)
            IN IF Len(half_bridges) # Len(vsw_nets)
               THEN [found |-> FALSE, bus |-> NULL, gnd |-> NULL, errors |-> errs]
               ELSE [found |-> TRUE, bus |-> half_bridges[1].hb.bus,
                     gnd |-> half_bridges[1].hb.gnd,
                     errors |-> errs
                        \o Flatten([k \in DOMAIN half_bridges |->
                               IF k > 1 /\ half_bridges[k].hb.bus # half_bridges[1].hb.bus
                               THEN << "half-bridges do not share common bus/gnd (expected "
                                       \o half_bridges[1].hb.bus \o "/" \o half_bridges[1].hb.gnd
                                       \o ", got " \o half_bridges[k].hb.bus \o "/"
                                       \o half_bridges[k].hb.gnd \o ")" >>
                               ELSE <<>>])
                        \o (IF require_input_bus /\ ~_is_input_supply_net(half_bridges[1].hb.bus)
                            THEN << "bus net (" \o half_bridges[1].hb.bus
                                    \o ") does not look like an input supply (VIN/VBUS/...)" >>
                            ELSE <<>>)]
    IN Only({Result(r) :
               r \in {[k \in DOMAIN vsw_nets |-> _infer_half_bridge_on_vsw(mosfets, vsw_nets[k])]}})

\* the result pair (bridge or None, errors) as a record
_infer_multi_half_bridges(mosfets, vsw_nets, require_input_bus) ==
    LET Result(r) ==
            LET errs == Flatten([k \in DOMAIN r |->
                           IF r[k].errors # <<>>
                           THEN << vsw_nets[k] \o ": " \o JoinSemicolon(r[k].errors) >>
                           ELSE <<>>])
                half_bridges == SelectSeq(r, LAMBDA x : x.found)
            IN IF Len(half_bridges) # Len(vsw_nets)
               THEN [found |-> FALSE, bus |-> NULL, gnd |-> NULL, errors |-> errs]
               ELSE [found |-> TRUE, bus |-> half_bridges[1].hb.bus,
                     gnd |-> half_bridges[1].hb.gnd,
                     errors |-> errs
                        \o Flatten([k \in DOMAIN half_bridges |->
                               IF k > 1 /\ (\/ half_bridges[k].hb.bus # half_bridges[1].hb.bus
                                            \/ half_bridges[k].hb.gnd # half_bridges[1].hb.gnd)
                               THEN << "half-bridges do not share common bus/gnd (expected "
                                       \o half_bridges[1].hb.bus \o "/" \o half_bridges[1].hb.gnd
                                       \o ", got " \o half_bridges[k].hb.bus \o "/"
                                       \o half_bridges[k].hb.gnd \o ")" >>
                               ELSE <<>>])
                        \o (IF require_input_bus /\ ~_is_input_supply_net(half_bridges[1].hb.bus)
                            THEN << "bus net (" \o half_bridges[1].hb.bus
                                    \o ") does not look like an input supply (VIN/VBUS/...)" >>
                            ELSE <<>>)]
    IN Only({Result(r) :
               r \in {[k \in DOMAIN vsw_nets |-> _infer_half_bridge_on_vsw(mosfets, vsw_nets[k])]}})

\* every error with the prefix in front
Prefixed(prefix, errs) == [k \in DOMAIN errs |-> prefix \o errs[k]]

_verify_3ph_inverter(power_graph, snapshot) ==
    LET vsw_nets == [k \in 1..3 |-> _resolve_named_net(snapshot, "VSW_" \o ToString(k))]
    IN IF Len(power_graph.mosfets) < 6
       THEN << "3-phase inverter requires at least 6 MOSFETs" >>
       ELSE IF \E k \in 1..3 : ~Truthy(vsw_nets[k])
       THEN << "3-phase inverter: expected output nets named VSW_1, VSW_2, VSW_3" >>
       ELSE Prefixed("3-phase inverter: ",
                     _infer_multi_half_bridges(power_graph.mosfets, vsw_nets, TRUE).errors)

_verify_1ph_fullbridge(power_graph, snapshot) ==
    LET vsw_nets == [k \in 1..2 |-> _resolve_named_net(snapshot, "VSW_" \o ToString(k))]
    IN IF Len(power_graph.mosfets) < 4
       THEN << "Single-phase full-bridge requires at least 4 MOSFETs" >>
       ELSE IF \E k \in 1..2 : ~Truthy(vsw_nets[k])
       THEN << "Single-phase inverter: expected output nets named VSW_1 and VSW_2" >>
       ELSE Prefixed("Single-phase inverter: ",
                     _infer_multi_half_bridges(power_graph.mosfets, vsw_nets, TRUE).errors)

\* the verification of the template's topology type
_verify_power_topology(snapshot, topology_type, store) ==
    LET Verify(power_graph) ==
            CASE topology_type = "dab" -> _verify_dab(power_graph, snapshot)
              [] topology_type = "3ph_inverter" -> _verify_3ph_inverter(power_graph, snapshot)
              [] topology_type = "1ph_fullbridge" -> _verify_1ph_fullbridge(power_graph, snapshot)
    IN Only({Verify(power_graph) : power_graph \in {_build_power_graph(snapshot, store)}})

check_system_topology(snapshot, task_id, store) ==
    IF ~is_complex_task(task_id) THEN <<>>
    ELSE LET template == TASK_TEMPLATES[task_id]
             counts == _count_components(snapshot)
             Requires(key) == key \in DOMAIN template /\ template[key]
             head == "Task " \o ToString(task_id) \o " (" \o template.name \o ") requires "
         IN _check_component_counts(counts, template, task_id)
            \o (IF Requires("requires_transformer") /\ counts.transformers = 0
                THEN << head \o "a transformer but none found" >> ELSE <<>>)
            \o (IF Requires("requires_resonant_inductor")
                   /\ counts.power_inductors = 0 /\ counts.inductors = 0
                THEN << head \o "power inductor (Inductor_power or L) for resonant tank, "
                        \o "but none found" >> ELSE <<>>)
            \o (IF Requires("requires_blocking_cap") /\ counts.film_caps = 0
                THEN << head \o "blocking capacitors in series with transformer, "
                        \o "but none found" >> ELSE <<>>)
            \o _check_vbus_decoupling(snapshot, task_id)
            \o _verify_power_topology(snapshot, template.topology_type, store)

------------------------------------------------------------------------------
(* complex_task_validator.py: validate_complex_task, one action per stage.  *)
(* `stage` records, per stage that ran, the list the stage returned.        *)

\* extend putting the new entries in front
extend_front(list, more) == more \o list

\* list.extend
extend(list, more) == list \o more

\* the net-conflict loops appending every entry to errors
ErrorsOf_keep_warnings(found) == found

\* the entries the two net-conflict loops append to errors, and to warnings
ErrorsOf(found) == SelectSeq(found, LAMBDA err : ~Contains(err, "WARNING"))

WarningsOf(found) == SelectSeq(found, LAMBDA err : Contains(err, "WARNING"))

Ran(name, out) == Append(stage, [name |-> name, out |-> out])

\* number of net names of the inverter circuits
ValNumNets == 4

ValNetNames == <<"VIN", "GND", "COM_SEC", "GATE", "VSW">>
ValNetPool == Prefix(ValNetNames, ValNumNets)

MosfetPins == << <<"1", "S">>, <<"4", "G">>, <<"5", "D">> >>

TwoPins == << <<"1", "~">>, <<"2", "~">> >>

\* a MOSFET's source, gate and drain nets
MosfetOn(i, source, gate, drain) ==
    (<<i, 1>> :> <<source>>) @@ (<<i, 2>> :> <<gate>>) @@ (<<i, 3>> :> <<drain>>)

\* an isolated supply and three MOSFETs, no gate driver
ValTemplate ==
    << Part("U1", "MGJ2D121505SC", MGJ2DPins),
       Part("Q1", "BSC052N08NS5", MosfetPins),
       Part("Q2", "BSC052N08NS5", MosfetPins),
       Part("Q3", "BSC052N08NS5", MosfetPins) >>

\* U1: +VIN on VIN, -VOUT on VEE_SEC; the MOSFETs between VIN and GND, the
\* gates of Q1 and Q2 on GATE.  Free: U1 -VIN, 0V and +VOUT, the gate of Q3.
ValFixed ==
    (<<1, 1>> :> <<"VIN">>) @@ (<<1, 3>> :> <<"VEE_SEC">>) @@
    (<<2, 1>> :> <<"GND">>) @@ (<<2, 2>> :> <<"GATE">>) @@ (<<2, 3>> :> <<"VIN">>) @@
    (<<3, 1>> :> <<"GND">>) @@ (<<3, 2>> :> <<"GATE">>) @@ (<<3, 3>> :> <<"VIN">>) @@
    (<<4, 1>> :> <<"GND">>) @@ (<<4, 3>> :> <<"VIN">>)

\* validate_complex_task is exported by the package; run.py calls it for the
\* template tasks.  Without a task number no template applies.
ValTasks == {NoTask, 23}

ValInit ==
    /\ kg = KGConstrained
    /\ std = NULL
    /\ task \in ValTasks
    /\ \E w \in Wirings(ValTemplate, ValFixed, ValNetPool) :
           gen = snapshot_from_circuit(Wire(ValTemplate, w))
    /\ pc = "extracted"
    /\ Idle

\* run_complex_task_verification up to the call of the validator
ValAugment ==
    /\ pc = "extracted"
    /\ gen' = augment_snapshot(gen, kg)
    /\ pc' = "phase2"
    /\ UNCHANGED <<kg, std, task, rules, idx, cache, errors, warnings, result, stage>>

\* the same stage without the early return
Phase2_no_fast_fail ==
    /\ pc = "phase2"
    /\ LET phase2_errors == run_phase2_checks(gen, kg, task)
       IN /\ errors' = extend(errors, phase2_errors)
          /\ stage' = Ran("phase2", phase2_errors)
          /\ result' = result
          /\ pc' = "isolation"
    /\ UNCHANGED <<kg, std, gen, task, rules, idx, cache, warnings>>

\* stage 1, with the fast-fail return
Phase2 ==
    /\ pc = "phase2"
    /\ LET phase2_errors == run_phase2_checks(gen, kg, task)
       IN /\ errors' = extend(errors, phase2_errors)
          /\ stage' = Ran("phase2", phase2_errors)
          /\ IF phase2_errors # <<>>
             THEN /\ result' = [passed |-> FALSE, errors |-> errors', warnings |-> warnings]
                  /\ pc' = "returned"
             ELSE /\ result' = result
                  /\ pc' = "isolation"
    /\ UNCHANGED <<kg, std, gen, task, rules, idx, cache, warnings>>

\* stage 2
IsolationBoundary ==
    /\ pc = "isolation"
    /\ \E iso_errors \in check_isolation_boundary_violations(gen, kg) :
           /\ errors' = extend(errors, iso_errors)
           /\ stage' = Ran("isolation", iso_errors)
    /\ pc' = "net"
    /\ UNCHANGED <<kg, std, gen, task, rules, idx, cache, warnings, result>>

\* stage 3
NetConflicts ==
    /\ pc = "net"
    /\ LET net_errors == check_net_conflicts(gen, kg)
       IN /\ errors' = extend(errors, ErrorsOf(net_errors))
          /\ warnings' = extend(warnings, WarningsOf(net_errors))
          /\ stage' = Ran("net", net_errors)
    /\ pc' = "interface"
    /\ UNCHANGED <<kg, std, gen, task, rules, idx, cache, result>>

\* stage 4
Interfaces ==
    /\ pc = "interface"
    /\ LET interface_errors == check_interfaces(gen, kg)
       IN /\ errors' = extend(errors, interface_errors)
          /\ stage' = Ran("interface", interface_errors)
    /\ pc' = "system"
    /\ UNCHANGED <<kg, std, gen, task, rules, idx, cache, warnings, result>>

\* stage 5
SystemTopology ==
    /\ pc = "system"
    /\ LET system_errors == check_system_topology(gen, task, kg)
       IN /\ errors' = extend(errors, system_errors)
          /\ stage' = Ran("system", system_errors)
    /\ pc' = "mosfet"
    /\ UNCHANGED <<kg, std, gen, task, rules, idx, cache, warnings, result>>

\* stage 6 and the return
MosfetConflicts ==
    /\ pc = "mosfet"
    /\ LET mosfet_errors == check_mosfet_net_conflicts(gen)
       IN /\ errors' = extend(errors, ErrorsOf(mosfet_errors))
          /\ warnings' = extend(warnings, WarningsOf(mosfet_errors))
          /\ stage' = Ran("mosfet", mosfet_errors)
          /\ result' = [passed |-> errors' = <<>>, errors |-> errors', warnings |-> warnings']
    /\ pc' = "returned"
    /\ UNCHANGED <<kg, std, gen, task, rules, idx, cache>>

ValNext ==
    \/ ValAugment \/ Phase2 \/ IsolationBoundary \/ NetConflicts
    \/ Interfaces \/ SystemTopology \/ MosfetConflicts

SpecValidate == ValInit /\ [][ValNext]_vars

\* the stages of validate_complex_task in the order it calls them
StageOrder == <<"phase2", "isolation", "net", "interface", "system", "mosfet">>

\* what a stage's list contributes to the error list: all of it, and for the
\* two net-conflict stages the entries without 'WARNING'
ErrorEntries(ran) ==
    IF ran.name \in {"net", "mosfet"}
    THEN SelectSeq(ran.out, LAMBDA entry : ~Contains(entry, "WARNING"))
    ELSE ran.out

C3_FastFailOnlyAtPhase2 ==
    pc = "returned" =>
        IF stage[1].out # <<>>
        THEN /\ Len(stage) = 1
             /\ result = [passed |-> FALSE, errors |-> stage[1].out, warnings |-> <<>>]
        ELSE [k \in DOMAIN stage |-> stage[k].name] = StageOrder

\* C3 witness: a fast-fail return on two Phase 2 errors.
C3_Witness ==
    /\ pc = "returned"
    /\ Len(stage) = 1 /\ stage[1].name = "phase2" /\ Len(stage[1].out) >= 2
    /\ ~result.passed

\* C4: validate_complex_task returns passed = true exactly when the error
\* list it returns is empty, and every entry of the two net-conflict stages
\* that contains 'WARNING' is in the returned warnings and not in the
\* returned errors.
C4_PassedIffNoErrors ==
    pc = "returned" =>
        /\ result.passed <=> result.errors = <<>>
        /\ \A k \in DOMAIN stage :
               stage[k].name \in {"net", "mosfet"} =>
                   \A entry \in Range(stage[k].out) :
                       Contains(entry, "WARNING") =>
                           /\ entry \in Range(result.warnings)
                           /\ entry \notin Range(result.errors)

\* C4 witness: a passing return that carries warnings of both net-conflict
\* stages.
C4_Witness ==
    /\ pc = "returned"
    /\ result.passed
    /\ Len(stage) = 6 /\ stage[3].out # <<>> /\ stage[6].out # <<>>
    /\ Len(result.warnings) = Len(stage[3].out) + Len(stage[6].out)

------------------------------------------------------------------------------
(* match_skeleton.py: check_graph_similarity up to the subgraph matching    *)
(* that tasks 1 to 5 and 7 to 12 get when the counts are within tolerance.  *)

FULL_SUBGRAPH_TASKS == {3}
KEY_SUBGRAPH_TASKS == {1, 2, 4, 5, 7, 8, 9, 10, 11, 12}

_component_part_counts(snapshot) ==
    LET ids == {c.part_id : c \in {d \in Range(snapshot.components) : Truthy(d.part_id)}}
    IN [p \in ids |-> Len(SelectSeq(snapshot.components, LAMBDA c : c.part_id = p))]

\* the same check with the default tolerance for every part and task
_check_component_count_tolerance_one_tolerance(std_snapshot, gen_snapshot, task_id) ==
    LET std_counts == _component_part_counts(std_snapshot)
        gen_counts == _component_part_counts(gen_snapshot)
        part_ids == Sorted(DOMAIN std_counts \cup DOMAIN gen_counts)
        Get(counts, p) == IF p \in DOMAIN counts THEN counts[p] ELSE 0
        Message(p, lo, hi) ==
            "Component count out of tolerance: " \o p \o " std=" \o ToString(Get(std_counts, p))
            \o " gen=" \o ToString(Get(gen_counts, p))
            \o " (allowed " \o ToString(lo) \o "-" \o ToString(hi) \o ")"
        errs(p) ==
            LET std_count == Get(std_counts, p)
                gen_count == Get(gen_counts, p)
                \* the tolerance in tenths: COMPONENT_COUNT_TOLERANCE,
                \* P16_PASSIVE_TOLERANCE
                tolerance_override == 5
                \* math.ceil(std_count * (1 - tolerance_override)) and
                \* math.floor(std_count * (1 + tolerance_override)); the
                \* doubles give these integers for every count below 1000
                min_count == IF std_count <= 4 THEN 1
                             ELSE (std_count * (10 - tolerance_override) + 9) \div 10
                max_count == IF std_count <= 4 THEN 4
                             ELSE (std_count * (10 + tolerance_override)) \div 10
            IN IF task_id = 15 /\ p = "D" THEN <<>>
               ELSE IF std_count = 0
               THEN IF gen_count >= 4 THEN << Message(p, 0, 3) >> ELSE <<>>
               ELSE IF gen_count < min_count \/ gen_count > max_count
               THEN << Message(p, min_count, max_count) >>
               ELSE <<>>
        errors_ == Flatten([k \in DOMAIN part_ids |-> errs(part_ids[k])])
    IN IF errors_ = <<>> THEN <<>>
       ELSE << "NetworkX component count tolerance check failed." >> \o errors_

_check_component_count_tolerance(std_snapshot, gen_snapshot, task_id) ==
    LET std_counts == _component_part_counts(std_snapshot)
        gen_counts == _component_part_counts(gen_snapshot)
        part_ids == Sorted(DOMAIN std_counts \cup DOMAIN gen_counts)
        Get(counts, p) == IF p \in DOMAIN counts THEN counts[p] ELSE 0
        Message(p, lo, hi) ==
            "Component count out of tolerance: " \o p \o " std=" \o ToString(Get(std_counts, p))
            \o " gen=" \o ToString(Get(gen_counts, p))
            \o " (allowed " \o ToString(lo) \o "-" \o ToString(hi) \o ")"
        errs(p) ==
            LET std_count == Get(std_counts, p)
                gen_count == Get(gen_counts, p)
                \* the tolerance in tenths: COMPONENT_COUNT_TOLERANCE,
                \* P16_PASSIVE_TOLERANCE
                tolerance_override == IF task_id = 16 /\ p \in {"R", "C"} THEN 6 ELSE 5
                \* math.ceil(std_count * (1 - tolerance_override)) and
                \* math.floor(std_count * (1 + tolerance_override)); the
                \* doubles give these integers for every count below 1000
                min_count == IF std_count <= 4 THEN 1
                             ELSE (std_count * (10 - tolerance_override) + 9) \div 10
                max_count == IF std_count <= 4 THEN 4
                             ELSE (std_count * (10 + tolerance_override)) \div 10
            IN IF task_id = 15 /\ p = "D" THEN <<>>
               ELSE IF std_count = 0
               THEN IF gen_count >= 4 THEN << Message(p, 0, 3) >> ELSE <<>>
               ELSE IF gen_count < min_count \/ gen_count > max_count
               THEN << Message(p, min_count, max_count) >>
               ELSE <<>>
        errors_ == Flatten([k \in DOMAIN part_ids |-> errs(part_ids[k])])
    IN IF errors_ = <<>> THEN <<>>
       ELSE << "NetworkX component count tolerance check failed." >> \o errors_

\* nx_installed: whether the import of networkx succeeded
check_graph_similarity(std_snapshot, gen_snapshot, task_id, nx_installed) ==
    CASE ~nx_installed ->
           << "NetworkX graph similarity check skipped (networkx not installed)." >>
      [] nx_installed
         /\ (\/ task_id \notin FULL_SUBGRAPH_TASKS \cup KEY_SUBGRAPH_TASKS
             \/ _check_component_count_tolerance(std_snapshot, gen_snapshot, task_id) # <<>>) ->
           _check_component_count_tolerance(std_snapshot, gen_snapshot, task_id)

------------------------------------------------------------------------------
(* The verification of one candidate as run.py does it: the validator for   *)
(* a template task, else the stages of run_topology_verification that look  *)
(* at the snapshots: Phase 2, rule extraction, graph similarity, rule check.*)

SimpleInit ==
    /\ kg \in {KGByNumber, KGConstrained}
    /\ task = NoTask
    /\ \E ref \in RefWirings :
           /\ std = snapshot_from_circuit(Wire(RuleTemplate, ref))
           /\ \E circuit \in Candidates(ref) : gen = snapshot_from_circuit(circuit)
    /\ pc = "raw"
    /\ Idle

\* run_phase2_checks on the candidate, with the early return
SimplePhase2 ==
    /\ pc = "augmented" /\ stage = <<>>
    /\ LET phase2_errors == run_phase2_checks(gen, kg, task)
       IN /\ stage' = Ran("phase2", phase2_errors)
          /\ pc' = IF phase2_errors # <<>> THEN "rejected" ELSE pc
    /\ UNCHANGED <<kg, std, gen, task, rules, idx, cache, errors, warnings, result>>

GraphSimilarity ==
    /\ pc = "loaded" /\ Len(stage) = 1
    /\ \E nx_installed \in BOOLEAN :
           stage' = Ran("similarity", check_graph_similarity(std, gen, task, nx_installed))
    /\ UNCHANGED <<kg, std, gen, task, pc, rules, idx, cache, errors, warnings, result>>

(* passive_collapse.py: the bipartite graph of components and nets and the  *)
(* path query over its passive components.  A node is the string            *)
(* "comp:<ref>" or "net:<name>", the graph a function from nodes to sets.   *)

\* the graph with a net's edge to a component added for the component's
\* first pin only
build_bipartite_graph_from_first_pin(snapshot) ==
    LET comps == Range(snapshot.components)
        NetsOf(comp) == {"net:" \o pin.net : pin \in {x \in Range(comp.pins) : Truthy(x.net)}}
        comp_nodes == {"comp:" \o comp.ref : comp \in comps}
        net_nodes == UNION {NetsOf(comp) : comp \in comps}
    IN [node \in comp_nodes \cup net_nodes |->
           IF node \in comp_nodes
           THEN UNION {NetsOf(comp) : comp \in {x \in comps : "comp:" \o x.ref = node}}
           ELSE {"comp:" \o comp.ref :
                    comp \in {x \in comps : x.pins # <<>> /\ Truthy(x.pins[1].net)
                                             /\ "net:" \o x.pins[1].net = node}}]

build_bipartite_graph(snapshot) ==
    LET comps == Range(snapshot.components)
        NetsOf(comp) == {"net:" \o pin.net : pin \in {x \in Range(comp.pins) : Truthy(x.net)}}
        comp_nodes == {"comp:" \o comp.ref : comp \in comps}
        net_nodes == UNION {NetsOf(comp) : comp \in comps}
    IN [node \in comp_nodes \cup net_nodes |->
           IF node \in comp_nodes
           THEN UNION {NetsOf(comp) : comp \in {x \in comps : "comp:" \o x.ref = node}}
           ELSE {"comp:" \o comp.ref : comp \in {x \in comps : node \in NetsOf(x)}}]

_allowed_nodes(snapshot, allow_caps) ==
    {"comp:" \o comp.ref :
        comp \in {x \in Range(snapshot.components) :
                     /\ classify_passive(x) # NULL
                     /\ ~(classify_passive(x) = "C" /\ ~allow_caps)}}
    \cup {"net:" \o PyStr(net.name) : net \in Range(snapshot.nets)}

\* the nodes the search of _path_exists visits when it is not cut short
RECURSIVE CollapseVisited(_, _, _)
CollapseVisited(graph, allowed, visited) ==
    LET next == UNION {graph[node] : node \in visited \cap DOMAIN graph}
        more == (next \cap allowed) \ visited
    IN IF more = {} THEN visited ELSE CollapseVisited(graph, allowed, visited \cup more)

\* passive_collapse._path_exists
collapse_path_exists(graph, start, end, snapshot, allow_caps) ==
    end \in CollapseVisited(graph, _allowed_nodes(snapshot, allow_caps), {start})

DRIVER_OUT_ROLES == {"out", "out_plus", "out_minus", "gate_ho", "gate_lo", "logic_out"}

GND_ROLES == {"supply_gnd", "mosfet_source", "mosfet_kelvin_source"}

\* _collect_passive_nodes: the component nodes the search from start reaches;
\* the search does not go on from the end node
RECURSIVE PassiveVisited(_, _, _, _)
PassiveVisited(graph, allowed, end, visited) ==
    LET next == UNION {graph[node] : node \in (visited \ {end}) \cap DOMAIN graph}
        more == (next \cap allowed) \ visited
    IN IF more = {} THEN visited ELSE PassiveVisited(graph, allowed, end, visited \cup more)

_collect_passive_nodes(snapshot, start_net, end_net, graph) ==
    {node \in PassiveVisited(graph, _allowed_nodes(snapshot, TRUE), "net:" \o end_net,
                             {"net:" \o start_net}) : StartsWith(node, "comp:")}

_reference_nets(snapshot) ==
    {net.name : net \in {x \in Range(snapshot.nets) :
                            \/ Upper(PyStr(x.name)) = "GND"
                            \/ \E ep \in Range(x.endpoints) : ep.pin_role \in GND_ROLES}}

_capacitor_shunts_gate(comp, gate_net, ref_nets) ==
    LET nets == {pin.net : pin \in {x \in Range(comp.pins) : Truthy(x.net)}}
    IN gate_net \in nets /\ nets \cap ref_nets # {}

\* the flags of _fingerprint_for_connection for the passives the search
\* collected and the reference nets
FingerprintOf(on_path, end_net, ref_nets, dc_path) ==
    [dc_path |-> dc_path,
     has_series_resistor |-> \E comp \in on_path : classify_passive(comp) = "R",
     has_diode |-> \E comp \in on_path : classify_passive(comp) = "D",
     has_shunt_cap |-> \E comp \in on_path :
                           /\ classify_passive(comp) = "C"
                           /\ _capacitor_shunts_gate(comp, end_net, ref_nets)]

\* _fingerprint_for_connection; diode_direction, which no comparison of links
\* reads, is left out
_fingerprint_for_connection(snapshot, start_net, end_net, graph) ==
    FingerprintOf({comp \in Range(snapshot.components) :
                      "comp:" \o comp.ref
                          \in _collect_passive_nodes(snapshot, start_net, end_net, graph)},
                  end_net, _reference_nets(snapshot),
                  collapse_path_exists(graph, "net:" \o start_net, "net:" \o end_net,
                                       snapshot, FALSE))

\* the connected pins of a snapshot with a role of `roles`, in component and
\* pin order
LinkEnds(snapshot, roles) ==
    Flatten([i \in DOMAIN snapshot.components |->
        LET comp == snapshot.components[i]
            ps == SelectSeq(comp.pins, LAMBDA pin : pin.pin_role \in roles /\ Truthy(pin.net))
        IN [j \in DOMAIN ps |->
               [ref |-> comp.ref, part_id |-> comp.part_id, category |-> comp.category,
                pin_role |-> ps[j].pin_role, net |-> ps[j].net]]])

\* the condition under which compute_driver_gate_links adds a link
Linked(snapshot, graph, driver, gate) ==
    \/ driver.net = gate.net
    \/ /\ "net:" \o driver.net \in DOMAIN graph
       /\ "net:" \o gate.net \in DOMAIN graph
       /\ collapse_path_exists(graph, "net:" \o driver.net, "net:" \o gate.net,
                               snapshot, TRUE)

\* the links of one driver, in the order of the gates
LinksOfDriver(snapshot, graph, driver, linked) ==
    [b \in DOMAIN linked |->
        [driver |-> driver, gate |-> linked[b],
         fingerprint |-> _fingerprint_for_connection(snapshot, driver.net, linked[b].net,
                                                     graph)]]

\* the loops of compute_driver_gate_links over the drivers and the gates
LinksBetween(snapshot, graph, drivers, gates) ==
    Flatten([a \in DOMAIN drivers |->
        LinksOfDriver(snapshot, graph, drivers[a],
                      SelectSeq(gates, LAMBDA gate : Linked(snapshot, graph, drivers[a], gate)))])

\* passive_collapse.compute_driver_gate_links: one link for every driver
\* output and gate on one net or joined by a path through passives
compute_driver_gate_links(snapshot) ==
    LinksBetween(snapshot, build_bipartite_graph(snapshot),
                 LinkEnds(snapshot, DRIVER_OUT_ROLES), LinkEnds(snapshot, {"mosfet_gate"}))

_normalize_role(role) ==
    IF ~Truthy(role) THEN role
    ELSE IF role \in {"out_plus", "out_minus"} THEN "out"
    ELSE role

_drivers_compatible(std_driver, gen_driver) ==
    /\ (Truthy(std_driver.category) /\ Truthy(gen_driver.category))
           => std_driver.category = gen_driver.category
    /\ _normalize_role(std_driver.pin_role) = _normalize_role(gen_driver.pin_role)

_gates_compatible(std_gate, gen_gate) ==
    /\ (Truthy(std_gate.category) /\ Truthy(gen_gate.category))
           => std_gate.category = gen_gate.category
    /\ std_gate.pin_role = gen_gate.pin_role

_fingerprint_compatible(std_fp, gen_fp) ==
    /\ std_fp.dc_path => gen_fp.dc_path
    /\ std_fp.has_series_resistor => gen_fp.has_series_resistor
    /\ std_fp.has_shunt_cap => gen_fp.has_shunt_cap

LinksCompatible(std_link, link) ==
    /\ _drivers_compatible(std_link.driver, link.driver)
    /\ _gates_compatible(std_link.gate, link.gate)
    /\ _fingerprint_compatible(std_link.fingerprint, link.fingerprint)

\* _find_matching_link: the position of the first unused compatible link of
\* the candidate, 0 for None
_find_matching_link(std_link, gen_links, used) ==
    LET fits == {i \in DOMAIN gen_links \ used : LinksCompatible(std_link, gen_links[i])}
    IN IF fits = {} THEN 0 ELSE CHOOSE i \in fits : \A j \in fits : i <= j

\* the loop of check_driver_gate_links from reference link k on: the match
\* found for every link
RECURSIVE MatchFrom(_, _, _, _)
MatchFrom(std_links, gen_links, k, used) ==
    IF k > Len(std_links) THEN <<>>
    ELSE LET match_idx == _find_matching_link(std_links[k], gen_links, used)
         IN <<match_idx>> \o
            MatchFrom(std_links, gen_links, k + 1,
                      IF match_idx = 0 THEN used ELSE used \cup {match_idx})

\* the errors of check_driver_gate_links for the matches found
MissingLinkErrors(std_links, matches) ==
    LET missing == SelectSeq([k \in DOMAIN std_links |->
                                 [gate |-> std_links[k].gate, idx |-> matches[k]]],
                             LAMBDA x : x.idx = 0)
    IN [k \in DOMAIN missing |->
           "Missing driver->gate link for MOSFET "
           \o (IF Truthy(missing[k].gate.part_id) THEN missing[k].gate.part_id
                ELSE PyStr(missing[k].gate.ref))]

LinkErrorsOf(std_links, gen_links) ==
    MissingLinkErrors(std_links, MatchFrom(std_links, gen_links, 1, {}))

\* one "Missing driver->gate link" error for each link of the reference
\* that no unused link of the candidate matches
check_driver_gate_links(std_snapshot, gen_snapshot) ==
    LinkErrorsOf(compute_driver_gate_links(std_snapshot),
                 compute_driver_gate_links(gen_snapshot))

\* the end of run_topology_verification: the errors of the rules and of the
\* driver-gate links, then the lines of check_graph_similarity; the
\* candidate passes when the list is empty
Verdict ==
    /\ pc = "done" /\ Len(stage) = 2
    /\ LET rule_errors == errors \o check_driver_gate_links(std, gen)
           nx_messages == stage[2].out
           all_errors == rule_errors \o nx_messages
       IN /\ errors' = rule_errors
          /\ result' = [passed |-> all_errors = <<>>, errors |-> all_errors,
                        warnings |-> warnings]
    /\ pc' = "verified"
    /\ UNCHANGED <<kg, std, gen, task, rules, idx, cache, warnings, stage>>

StagesNext ==
    \/ ValNext
    \/ RulesAugment
    \/ SimplePhase2
    \/ Len(stage) = 1 /\ ExtractRules
    \/ GraphSimilarity
    \/ Len(stage) = 2 /\ StartCheck
    \/ CheckRule
    \/ EndCheck
    \/ Verdict

SpecStages == (ValInit \/ SimpleInit) /\ [][StagesNext]_vars

NxSkipped == << "NetworkX graph similarity check skipped (networkx not installed)." >>

\* C13: when the graph library is unavailable, the skeleton matcher returns
\* one informational line and no error: a candidate of
\* run_topology_verification with no Phase 2 error, no rule error and no
\* missing driver-gate link passes.
C13_PassesWithoutGraphLibrary ==
    (pc = "verified" /\ stage[1].out = <<>> /\ stage[2].out = NxSkipped /\ errors = <<>>)
        => result.passed

------------------------------------------------------------------------------
(* The dual active bridge of task 20 through validate_complex_task: two     *)
(* full bridges, a transformer whose secondary is on the named ports, and   *)
(* a film capacitor and an inductor wired freely on the primary side.       *)

\* number of nets the two passives choose from
DabNumNets == 3

DabNetNames == <<"SW_A", "PRI_1", "MID", "GND">>
DabNetPool == Prefix(DabNetNames, DabNumNets)



DabTemplate ==
    << Part("Q1", "BSC052N08NS5", MosfetPins), Part("Q2", "BSC052N08NS5", MosfetPins),
       Part("Q3", "BSC052N08NS5", MosfetPins), Part("Q4", "BSC052N08NS5", MosfetPins),
       Part("Q5", "BSC052N08NS5", MosfetPins), Part("Q6", "BSC052N08NS5", MosfetPins),
       Part("Q7", "BSC052N08NS5", MosfetPins), Part("Q8", "BSC052N08NS5", MosfetPins),
       Part("T1", "transformer_PQ5050",
            << <<"1", "P1">>, <<"4", "P2">>, <<"7", "S1">>, <<"10", "S2">> >>),
       Part("C1", "C_film", TwoPins),
       Part("L1", "L", TwoPins) >>

\* the input bridge between VIN and GND on SW_A and SW_B, the output bridge
\* between VOUT and GND_SEC on VSW_1 and VSW_2; the secondary on the named
\* ports, the second primary terminal on SW_B, the first on PRI_1
DabFixed ==
    MosfetOn(1, "SW_A", "G1", "VIN") @@ MosfetOn(2, "GND", "G2", "SW_A") @@
    MosfetOn(3, "SW_B", "G3", "VIN") @@ MosfetOn(4, "GND", "G4", "SW_B") @@
    MosfetOn(5, "VSW_1", "G5", "VOUT") @@ MosfetOn(6, "GND_SEC", "G6", "VSW_1") @@
    MosfetOn(7, "VSW_2", "G7", "VOUT") @@ MosfetOn(8, "GND_SEC", "G8", "VSW_2") @@
    (<<9, 1>> :> <<"PRI_1">>) @@ (<<9, 2>> :> <<"SW_B">>) @@
    (<<9, 3>> :> <<"VSW_1">>) @@ (<<9, 4>> :> <<"VSW_2">>)

DabInit ==
    /\ kg = KGByNumber
    /\ std = NULL
    /\ task = 20
    /\ \E w \in Wirings(DabTemplate, DabFixed, DabNetPool) :
           gen = snapshot_from_circuit(Wire(DabTemplate, w))
    /\ pc = "extracted"
    /\ Idle

SpecDab == DabInit /\ [][ValNext]_vars

\* a path from net to target through passive parts that enters no net twice
\* and holds the required parts
RECURSIVE SeriesPath(_, _, _, _, _, _)
SeriesPath(net_graph, net, target, entered, need_film, need_inductor) ==
    IF net = target THEN ~need_film /\ ~need_inductor
    ELSE \E e \in net_graph :
            /\ e[1] = net /\ e[2] \notin entered
            /\ SeriesPath(net_graph, e[2], target, entered \cup {e[2]},
                          need_film /\ e[3] # "C_film",
                          need_inductor /\ e[3] \notin INDUCTOR_IDS)

\* the input bridge's switch nodes and the primary terminals of the circuits
\* above are in series through parts of the required kinds
DabSeries(need_film, need_inductor) ==
    \E start \in {"SW_A", "SW_B"}, target \in {"PRI_1", "SW_B"} :
        SeriesPath(_build_passive_net_graph(gen, PATH_PART_IDS), start, target, {start},
                   need_film, need_inductor)

\* the system stage ran and the bridge inference reached the tank test
DabTankTested ==
    /\ task = 20 /\ Len(stage) >= 5
    /\ _verify_dab(_build_power_graph(gen, kg), gen) \in {<<>>, <<TankError>>}

\* C11: once both bridges and the transformer sides of a task-20 snapshot
\* are inferred, check_system_topology returns the missing-tank error
\* whenever no inductor is in series between the input bridge's switch nodes
\* and the transformer terminals it drives, and whenever no C_film is; the
\* error is absent when a series connection holds both.
C11_TankErrorWithoutSeriesParts ==
    DabTankTested =>
        LET reported == TankError \in Range(stage[5].out)
        IN /\ ~DabSeries(FALSE, TRUE) => reported
           /\ ~DabSeries(TRUE, FALSE) => reported
           /\ DabSeries(TRUE, TRUE) => ~reported

------------------------------------------------------------------------------
(* An isolated gate driver and its MOSFET through validate_complex_task:    *)
(* the driver output, a resistor and one end of a diode wired freely.       *)

\* number of nets the gate network chooses from
GateNumNets == 3

GateNetNames == <<"DRV", "GATE", "SRC", "VIN">>
GateNetPool == Prefix(GateNetNames, GateNumNets)

GateTemplate ==
    << Part("U1", "UCC5390E",
            << <<"1", "VCC1">>, <<"4", "GND1">>, <<"5", "VCC2">>, <<"6", "OUT">>,
               <<"7", "CLAMP">>, <<"8", "VEE2">> >>),
       Part("Q1", "BSC052N08NS5", MosfetPins),
       Part("R1", "R", TwoPins),
       Part("D1", "D", TwoPins) >>

\* the driver supplied on both sides, pins 7 and 8 on the MOSFET's source;
\* the second end of the diode on the gate.  Free: the driver output, both
\* ends of the resistor, the first end of the diode.
GateFixed ==
    (<<1, 1>> :> <<"VDD">>) @@ (<<1, 2>> :> <<"GND">>) @@ (<<1, 3>> :> <<"VCC2">>) @@
    (<<1, 5>> :> <<"SRC">>) @@ (<<1, 6>> :> <<"SRC">>) @@
    MosfetOn(2, "SRC", "GATE", "VIN") @@
    (<<4, 2>> :> <<"GATE">>)

GateInit ==
    /\ kg = KGByNumber
    /\ std = NULL
    /\ task = NoTask
    /\ \E w \in Wirings(GateTemplate, GateFixed, GateNetPool) :
           gen = snapshot_from_circuit(Wire(GateTemplate, w))
    /\ pc = "extracted"
    /\ Idle

SpecGate == GateInit /\ [][ValNext]_vars

\* the net of the driver output of the circuits above
GateOutNet == _get_pin_net(gen.components[1], "6")

\* the interface stage ran on a driver whose output is connected
GateOutputChecked == Len(stage) >= 4 /\ ~_is_not_connected(GateOutNet)

\* C12: for a connected gate-driver output, check_interfaces reports an
\* error unless a resistor is attached to the output net, and reports
\* 'connects directly to MOSFET ... without gate resistor' whenever the
\* output net is the gate net of a MOSFET.
C12_GateResistorRequired ==
    GateOutputChecked =>
        /\ (\A c \in Range(gen.components) :
               c.part_id = "R" => \A p \in Range(c.pins) : p.net # GateOutNet)
           => stage[4].out # <<>>
        /\ GateOutNet = _get_pin_net(gen.components[2], "4")
           => \E e \in Range(stage[4].out) :
                 Contains(e, "connects directly to MOSFET Q1 without gate resistor")

------------------------------------------------------------------------------
(* An op-amp whose KG entry lists its two inputs as a differential pair,    *)
(* through validate_complex_task.                                           *)

\* number of nets the op-amp inputs and the resistor choose from
DiffNumNets == 3

DiffNetNames == <<"INP", "INN", "NC", "OUT">>
DiffNetPool == Prefix(DiffNetNames, DiffNumNets)

\* the overlay of KGByNumber with the inputs of the op-amp as a pair
KGDifferential ==
    [KGByNumber EXCEPT
        !.kg_component_map["OPA328"].generic_constraints =
            << Constraint("differential_pair_must_be_distinct", <<"3", "4">>,
                          NULL, NULL, NULL) >>]

\* an op-amp with both inputs, and one drawn without its inverting input
DiffTemplates ==
    { << Part("U1", "OPA328", << <<"1", "OUT">>, <<"3", "IN+">>, <<"4", "IN-">> >>),
         Part("R1", "R", TwoPins) >>,
      << Part("U1", "OPA328", << <<"1", "OUT">>, <<"3", "IN+">> >>),
         Part("R1", "R", TwoPins) >> }

\* the output on OUT; the inputs and the resistor free
DiffFixed == (<<1, 1>> :> <<"OUT">>)

DiffInit ==
    /\ kg = KGDifferential
    /\ std = NULL
    /\ task = NoTask
    /\ \E template \in DiffTemplates :
         \E w \in Wirings(template, DiffFixed, DiffNetPool) :
             gen = snapshot_from_circuit(Wire(template, w))
    /\ pc = "extracted"
    /\ Idle

SpecDiff == DiffInit /\ [][ValNext]_vars

\* both pins of the pair are pins of the component, each on a net that is
\* not a no-connect, and the two nets differ
DistinctConnected(comp, pins) ==
    /\ \A k \in 1..2 : PinsFound(comp, pins[k]) # <<>>
                       /\ _is_connected(PinsFound(comp, pins[k])[1])
    /\ PinsFound(comp, pins[1])[1].net # PinsFound(comp, pins[2])[1].net

\* C14: for a component with a differential_pair_must_be_distinct
\* constraint, _check_constraints reports no error for the constraint only
\* if both pins are connected and on different nets: a pair with an
\* unconnected or missing pin, or with both pins on one net, gets an error.
C14_DifferentialPairConnectedAndDistinct ==
    Len(stage) >= 1 =>
        \A comp \in Range(gen.components) :
            comp.part_id = "OPA328" =>
                \/ DistinctConnected(comp, <<"3", "4">>)
                \/ \E e \in Range(stage[1].out) :
                       StartsWith(e, comp.ref \o ": differential pins")

------------------------------------------------------------------------------
(* _infer_half_bridge_on_vsw on the MOSFETs of a snapshot, around each net  *)
(* of the pool.                                                             *)

\* number of nets the MOSFETs of the half bridge choose from
HbNumNets == 4

HbNetNames == <<"VSW", "GND", "VIN", "PGND", "VMID">>
HbNetPool == Prefix(HbNetNames, HbNumNets)

HbTemplate ==
    << Part("Q1", "BSC052N08NS5", MosfetPins), Part("Q2", "BSC052N08NS5", MosfetPins),
       Part("Q3", "BSC052N08NS5", MosfetPins) >>

\* the gates on nets of their own, the source of Q3 on VSW; free: source and
\* drain of Q1 and Q2, the drain of Q3
HbFixed ==
    (<<1, 2>> :> <<"G1">>) @@ (<<2, 2>> :> <<"G2">>) @@
    (<<3, 1>> :> <<"VSW">>) @@ (<<3, 2>> :> <<"G3">>)

HbInit ==
    /\ kg = KGByNumber
    /\ std = NULL
    /\ task = NoTask
    /\ \E w \in Wirings(HbTemplate, HbFixed, HbNetPool) :
           gen = snapshot_from_circuit(Wire(HbTemplate, w))
    /\ pc = "extracted"
    /\ Idle

\* the inference around one net, on the MOSFETs of the power graph
InferHalfBridge ==
    /\ pc = "extracted"
    /\ \E vsw_net \in HbNetPool :
           result' = _infer_half_bridge_on_vsw(_build_power_graph(gen, kg).mosfets, vsw_net)
    /\ pc' = "inferred"
    /\ UNCHANGED <<kg, std, gen, task, rules, idx, cache, errors, warnings, stage>>

SpecHb == HbInit /\ [][InferHalfBridge]_vars

\* a pair of different MOSFETs around the net as the inference wants it:
\* HS.source and LS.drain on the net, LS.source ground-like, HS.drain not
HbWellFormed(hs, ls, vsw_net) ==
    /\ hs.ref # ls.ref
    /\ hs.source_net = vsw_net /\ ls.drain_net = vsw_net
    /\ _is_ground_net(ls.source_net)
    /\ Truthy(hs.drain_net) /\ ~_is_ground_net(hs.drain_net)

\* C15: a half bridge returned by _infer_half_bridge_on_vsw with an empty
\* error list is a pair of two different MOSFETs with HS.source = VSW,
\* LS.drain = VSW, LS.source ground-like and HS.drain not ground-like; and
\* when some such pair has an input-supply-like HS.drain, so has the
\* returned one.
C15_InferredHalfBridgeWellFormed ==
    (pc = "inferred" /\ result.found /\ result.errors = <<>>) =>
        LET mosfets == Range(_build_power_graph(gen, kg).mosfets)
        IN /\ HbWellFormed(result.hb.hs, result.hb.ls, result.hb.vsw)
           /\ (\E hs \in mosfets, ls \in mosfets :
                   HbWellFormed(hs, ls, result.hb.vsw) /\ _is_input_supply_net(hs.drain_net))
              => _is_input_supply_net(result.hb.hs.drain_net)

------------------------------------------------------------------------------
(* check_graph_similarity on a reference and a candidate that differ in the *)
(* numbers of their resistors and diodes.                                   *)

\* largest number of parts of one part_id in the reference
MaxStdCount == 6
\* largest number of parts of one part_id in the candidate
MaxGenCount == 10

\* n_r resistors and n_d diodes, wired to nothing
CountCircuit(n_r, n_d) ==
    LET template == [i \in 1..(n_r + n_d) |->
                        IF i <= n_r THEN Part("R" \o ToString(i), "R", TwoPins)
                        ELSE Part("D" \o ToString(i - n_r), "D", TwoPins)]
    IN Wire(template, [sl \in Slots(template) |-> <<>>])

CountInit ==
    /\ kg = KGByNumber
    /\ task \in {NoTask, 15, 16}
    /\ \E s_r \in 1..MaxStdCount, s_d \in {0, MaxStdCount} :
           std = snapshot_from_circuit(CountCircuit(s_r, s_d))
    /\ \E g_r \in 0..MaxGenCount, g_d \in {0, MaxGenCount} :
           gen = snapshot_from_circuit(CountCircuit(g_r, g_d))
    /\ pc = "counting"
    /\ Idle

\* check_graph_similarity on the two snapshots
CountSimilarity ==
    /\ pc = "counting"
    /\ \E nx_installed \in BOOLEAN :
           stage' = Ran("similarity", check_graph_similarity(std, gen, task, nx_installed))
    /\ pc' = "counted"
    /\ UNCHANGED <<kg, std, gen, task, rules, idx, cache, errors, warnings, result>>

SpecCount == CountInit /\ [][CountSimilarity]_vars

\* the number of parts of a part_id in a snapshot
PartCount(snapshot, part_id) ==
    Cardinality({k \in DOMAIN snapshot.components :
                    snapshot.components[k].part_id = part_id})

\* the tolerance as stated: within 50% of the reference count s (60% for R
\* and C of task 16), from 1 to 4 when s <= 4; D of task 15 exempt
Accepted(part_id, s, g, task_id) ==
    LET tenths == IF task_id = 16 /\ part_id \in {"R", "C"} THEN 6 ELSE 5
    IN \/ task_id = 15 /\ part_id = "D"
       \/ s <= 4 /\ 1 <= g /\ g <= 4
       \/ s > 4 /\ 10 * g >= (10 - tenths) * s /\ 10 * g <= (10 + tenths) * s

\* the count errors hold an entry for the part
CountErrorFor(out, part_id) ==
    /\ out # <<>>
    /\ out[1] = "NetworkX component count tolerance check failed."
    /\ \E k \in 2..Len(out) :
           StartsWith(out[k], "Component count out of tolerance: " \o part_id \o " std=")

\* what check_graph_similarity returned rejects exactly the parts of the
\* reference whose candidate count is not accepted
RejectsAsStated ==
    \A part_id \in {"R", "D"} :
        PartCount(std, part_id) >= 1 =>
            (CountErrorFor(stage[1].out, part_id)
                <=> ~Accepted(part_id, PartCount(std, part_id), PartCount(gen, part_id), task))

\* C16 (as claimed): check_graph_similarity returns the count errors, with an
\* entry for a part_id of reference count s >= 1 and candidate count g
\* exactly when not ((s <= 4 and 1 <= g <= 4) or (s > 4 and
\* ceil(0.5*s) <= g <= floor(1.5*s))), with 0.4 and 1.6 for R and C of task
\* 16, and never for D of task 15.
C16_CountToleranceRejects ==
    pc = "counted" => RejectsAsStated

\* C16 (amended): the same when networkx is installed; without it
\* check_graph_similarity returns the one line that the check was skipped
\* and no part is rejected.
C16_CountToleranceRejectsWithNetworkx ==
    pc = "counted" =>
        IF stage[1].out = NxSkipped
        THEN \A part_id \in {"R", "D"} : ~CountErrorFor(stage[1].out, part_id)
        ELSE RejectsAsStated

\* C16 witness: task 16 with 5 resistors in the reference and 8 in the
\* candidate, inside 60% and outside 50%, accepted; the diodes, absent from
\* the candidate, rejected.
C16_Witness ==
    /\ pc = "counted" /\ task = 16
    /\ PartCount(std, "R") = 5 /\ PartCount(gen, "R") = 8
    /\ PartCount(std, "D") = MaxStdCount /\ PartCount(gen, "D") = 0
    /\ CountErrorFor(stage[1].out, "D") /\ ~CountErrorFor(stage[1].out, "R")

------------------------------------------------------------------------------
(* infer_category on the part_id and reference of one extracted part.       *)

CategoryNames == {"R", "C", "L", "D", "BSC052N08NS5", "OPA328", "UCC5390E",
                  "MOSFET_N", "IRF540", "transformer_PQ5050", ""}
CategoryRefs == {"R1", "C1", "L1", "D1", "Q1", "q2", "U1", "T1"}

\* KGByNumber with a base table that names the MOSFET otherwise
KGBothTables ==
    [KGByNumber EXCEPT
        !.component_map = [p \in {"R", "BSC052N08NS5"} |->
                              PlainEntry(IF p = "R" THEN "passive" ELSE "transistor",
                                         NoRoles)]]

CategoryInit ==
    /\ kg \in {KGByNumber, KGEmpty, KGBothTables}
    /\ std = NULL
    /\ task = NoTask
    /\ \E name \in CategoryNames, ref \in CategoryRefs :
           gen = snapshot_from_circuit(
                     Wire(<< Part(ref, name, TwoPins) >>,
                          (<<1, 1>> :> <<>>) @@ (<<1, 2>> :> <<>>)))
    /\ pc = "extracted"
    /\ Idle

\* infer_category as augment_snapshot calls it for a component
InferCategory ==
    /\ pc = "extracted"
    /\ result' = infer_category(gen.components[1].part_id, gen.components[1].ref, kg)
    /\ pc' = "categorized"
    /\ UNCHANGED <<kg, std, gen, task, rules, idx, cache, errors, warnings, stage>>

SpecCategory == CategoryInit /\ [][InferCategory]_vars

\* the order as stated: KG category, reference prefix, literal part_id
StatedCategory(part_id, ref, store) ==
    LET prefix == Upper(SubSeq(ref, 1, 1))
    IN IF Truthy(get_category(store, part_id)) THEN get_category(store, part_id)
       ELSE IF prefix \in {"R", "C", "L", "D"} THEN "passive"
       ELSE IF prefix = "Q" THEN "MOSFET"
       ELSE IF part_id \in {"R", "C", "L", "D"} THEN "passive"
       ELSE "unknown"

\* C17: infer_category gives the KG category when the KG has one (overlay
\* before base table), else 'passive' for a reference prefix R, C, L or D
\* and 'MOSFET' for Q, else 'passive' for a part_id that is R, C, L or D,
\* else 'unknown'; nothing else gives 'MOSFET' or 'passive'.
C17_CategoryOrder ==
    pc = "categorized" =>
        result = StatedCategory(gen.components[1].part_id, gen.components[1].ref, kg)

------------------------------------------------------------------------------
(* One isolated supply through validate_complex_task, with a KG that lists  *)
(* the pins of its two sides as numbers, or as the same numbers in strings, *)
(* or does not know the part.                                               *)

\* KGByNumber with the pin lists of the supply as JSON strings
KGPinStrings ==
    [KGByNumber EXCEPT
        !.kg_component_map["MGJ2D121505SC"].primary_pins = PinList({}, {"1", "2"}),
        !.kg_component_map["MGJ2D121505SC"].secondary_pins = PinList({}, {"5", "6", "7"})]

BoundaryTemplate ==
    << Part("U1", "MGJ2D121505SC", MGJ2DPins), Part("C1", "C", TwoPins) >>

\* +VIN on VIN, C1 between VIN and GND; free: the other pins of the supply
BoundaryFixed ==
    (<<1, 1>> :> <<"VIN">>) @@ (<<2, 1>> :> <<"VIN">>) @@ (<<2, 2>> :> <<"GND">>)

BoundaryInit ==
    /\ kg \in {KGByNumber, KGPinStrings, KGEmpty}
    /\ std = NULL
    /\ task = NoTask
    /\ \E w \in Wirings(BoundaryTemplate, BoundaryFixed, IsoNetPool) :
           gen = snapshot_from_circuit(Wire(BoundaryTemplate, w))
    /\ pc = "extracted"
    /\ Idle

SpecBoundary == BoundaryInit /\ [][ValNext]_vars

\* the net is on a pin of the component that the KG pin list names, as a
\* number or as a string
OnListedPin(comp, net, pin_list) ==
    \E pin \in Range(comp.pins) :
        /\ pin.net = net
        /\ PyStr(pin.pin_id) \in pin_list.strs \cup {ToString(n) : n \in pin_list.ints}

\* C18: check_isolation_boundary_violations reports a barrier error for a
\* component and a net exactly when the component is an isolation boundary
\* and the net is on a pin listed in its primary_pins and on a pin listed in
\* its secondary_pins, whether the KG lists the pins as integers or as
\* strings; a component that is no boundary gets no such error.
C18_BarrierErrorIffBothSides ==
    Len(stage) >= 2 =>
        \A comp \in Range(gen.components), net \in NetNamesOf(gen) :
            BarrierError(comp.ref, net) \in Range(stage[2].out)
                <=> /\ HasComponent(kg, comp.part_id)
                    /\ get_component(kg, comp.part_id).isolation_boundary
                    /\ OnListedPin(comp, net, get_component(kg, comp.part_id).primary_pins)
                    /\ OnListedPin(comp, net, get_component(kg, comp.part_id).secondary_pins)

------------------------------------------------------------------------------
(* The path query of passive_collapse.py asked between two nets, in both   *)
(* directions.                                                              *)

\* number of nets the parts of the path queries choose from
PathNumNets == 3

PathNetNames == <<"DRV", "MID", "GATE", "GND">>
PathNetPool == Prefix(PathNetNames, PathNumNets)

PathTemplate ==
    << Part("R1", "R", TwoPins), Part("C1", "C", TwoPins),
       Part("Q1", "BSC052N08NS5", MosfetPins) >>

\* Q1: gate on GATE, source on GND; free: the resistor, the capacitor and
\* the drain of Q1
PathFixed == (<<3, 1>> :> <<"GND">>) @@ (<<3, 2>> :> <<"GATE">>)

PathInit ==
    /\ kg = KGByNumber
    /\ std = NULL
    /\ task = NoTask
    /\ \E w \in Wirings(PathTemplate, PathFixed, PathNetPool) :
           gen = augment_snapshot(snapshot_from_circuit(Wire(PathTemplate, w)), kg)
    /\ pc = "augmented"
    /\ Idle

\* the query between two net nodes, asked in both directions
PathQuery ==
    /\ pc = "augmented"
    /\ \E a \in PathNetPool, b \in PathNetPool, allow_caps \in BOOLEAN :
           /\ a # b
           /\ LET graph == build_bipartite_graph(gen)
              IN result' =
                    [a |-> a, b |-> b, allow_caps |-> allow_caps,
                     forth |-> collapse_path_exists(graph, "net:" \o a, "net:" \o b,
                                                    gen, allow_caps),
                     back |-> collapse_path_exists(graph, "net:" \o b, "net:" \o a,
                                                   gen, allow_caps)]
    /\ pc' = "queried"
    /\ UNCHANGED <<kg, std, gen, task, rules, idx, cache, errors, warnings, stage>>

SpecPath == PathInit /\ [][PathQuery]_vars

\* C19: between two net nodes of the bipartite graph and for each value of
\* allow_caps, _path_exists gives the same answer in both directions.
C19_PathSymmetric ==
    pc = "queried" => result.forth = result.back

\* C19 witness: a path found from DRV to GATE when capacitors are allowed
\* and none when they are not, that is a path through C1.
C19_Witness ==
    /\ pc = "queried" /\ result.a = "DRV" /\ result.b = "GATE"
    /\ result.allow_caps /\ result.forth /\ result.back
    /\ ~collapse_path_exists(build_bipartite_graph(gen), "net:DRV", "net:GATE", gen, FALSE)

------------------------------------------------------------------------------
(* snapshot_from_circuit on a circuit of two parts whose pins are attached  *)
(* to no net, to one net or to two nets; one pin has no number.  `result`   *)
(* holds the circuit (builtins.default_circuit), `gen` the snapshot.        *)

SnapNetPool == {"VIN", "GND"}

SnapTemplate ==
    << Part("U1", "OPA328", << <<"1", "OUT">>, <<NULL, "IN+">> >>),
       Part("R1", "R", << <<"1", "~">>, <<"2", "~">> >>) >>

\* the nets of one pin: none, one, or two different ones in either order
SnapNetChoices ==
    NetChoices(SnapNetPool) \cup
        {pair \in {<<n, m>> : n \in SnapNetPool, m \in SnapNetPool} : pair[1] # pair[2]}

SnapInit ==
    /\ kg = KGEmpty
    /\ std = NULL
    /\ gen = NULL
    /\ task = NoTask
    /\ \E w \in [Slots(SnapTemplate) -> SnapNetChoices] :
           result = Wire(SnapTemplate, w)
    /\ pc = "circuit"
    /\ rules = <<>> /\ idx = 0 /\ cache = {} /\ errors = <<>> /\ warnings = <<>>
    /\ stage = <<>>

\* snapshot_from_default_circuit
ExtractSnapshot ==
    /\ pc = "circuit"
    /\ gen' = snapshot_from_circuit(result)
    /\ pc' = "extracted"
    /\ UNCHANGED <<kg, std, task, rules, idx, cache, errors, warnings, result, stage>>

SpecSnapshot == SnapInit /\ [][ExtractSnapshot]_vars

\* the pin entries of `comp` for this pin that name the net
NamesNet(comp, pin_id, pin_name, net_name) ==
    \E j \in DOMAIN comp.pins :
        /\ comp.pins[j].pin_id = pin_id
        /\ comp.pins[j].pin_name = pin_name
        /\ comp.pins[j].net = net_name

HasEndpoint(net, ref, pin_id, pin_name) ==
    \E k \in DOMAIN net.endpoints :
        /\ net.endpoints[k].ref = ref
        /\ net.endpoints[k].pin_id = pin_id
        /\ net.endpoints[k].pin_name = pin_name

\* C22: in a snapshot built by snapshot_from_circuit the net names are
\* pairwise different, every endpoint of a net has the ref of a component of
\* the list, and a component's pin names net n exactly when n has an
\* endpoint with the component's ref and the pin's pin_id and pin_name.
C22_SnapshotWellFormed ==
    pc = "extracted" =>
        /\ \A a, b \in DOMAIN gen.nets : gen.nets[a].name = gen.nets[b].name => a = b
        /\ \A a \in DOMAIN gen.nets : \A k \in DOMAIN gen.nets[a].endpoints :
               \E i \in DOMAIN gen.components :
                   /\ gen.components[i].ref = gen.nets[a].endpoints[k].ref
                   /\ NamesNet(gen.components[i], gen.nets[a].endpoints[k].pin_id,
                               gen.nets[a].endpoints[k].pin_name, gen.nets[a].name)
        /\ \A i \in DOMAIN gen.components : \A j \in DOMAIN gen.components[i].pins :
               LET comp == gen.components[i]
                   pin == comp.pins[j]
               IN /\ pin.net # NULL => pin.net \in NetNamesOf(gen)
                  /\ \A a \in DOMAIN gen.nets :
                         NamesNet(comp, pin.pin_id, pin.pin_name, gen.nets[a].name)
                             <=> HasEndpoint(gen.nets[a], comp.ref, pin.pin_id, pin.pin_name)

\* C22 witness: a snapshot with a pin on two nets, a pin on none, and a net
\* with endpoints of both components.
C22_Witness ==
    /\ pc = "extracted"
    /\ Len(gen.nets) = 2
    /\ \E j, k \in DOMAIN gen.components[1].pins :
           /\ j # k
           /\ gen.components[1].pins[j].pin_id = gen.components[1].pins[k].pin_id
    /\ \E j \in DOMAIN gen.components[2].pins : gen.components[2].pins[j].net = NULL
    /\ \E a \in DOMAIN gen.nets :
           {gen.nets[a].endpoints[k].ref : k \in DOMAIN gen.nets[a].endpoints} = {"U1", "R1"}

------------------------------------------------------------------------------
(* The bridge verification of the two inverters on the MOSFETs of a         *)
(* snapshot: two MOSFETs around each named switch node, the high side with  *)
(* its source on the node and the low side with its drain on it, their      *)
(* other ends wired freely.                                                 *)

\* number of nets the free ends of the inverter MOSFETs choose from
InvNumNets == 3

InvNetNames == <<"VIN", "GND", "PGND", "VMID">>
InvNetPool == Prefix(InvNetNames, InvNumNets)

\* the number of half bridges of a topology type
InvPhases(topology_type) == IF topology_type = "3ph_inverter" THEN 3 ELSE 2

InvTemplate(phases) ==
    [i \in 1..(2 * phases) |-> Part("Q" \o ToString(i), "BSC052N08NS5", MosfetPins)]

\* gates open; MOSFET 2k-1 has its source on VSW_k, MOSFET 2k its drain
InvFixed(phases) ==
    [sl \in {<<i, 2>> : i \in 1..(2 * phases)}
            \cup {<<2 * k - 1, 1>> : k \in 1..phases}
            \cup {<<2 * k, 3>> : k \in 1..phases} |->
        IF sl[2] = 2 THEN <<>> ELSE << "VSW_" \o ToString((sl[1] + 1) \div 2) >>]

InvInit ==
    /\ kg = KGByNumber
    /\ std = NULL
    /\ task \in {22, 23}
    /\ LET phases == InvPhases(TASK_TEMPLATES[task].topology_type)
       IN \E w \in Wirings(InvTemplate(phases), InvFixed(phases), InvNetPool) :
              gen = snapshot_from_circuit(Wire(InvTemplate(phases), w))
    /\ pc = "extracted"
    /\ Idle

\* _verify_power_topology for the topology type of the task's template
VerifyInverter ==
    /\ pc = "extracted"
    /\ result' = _verify_power_topology(gen, TASK_TEMPLATES[task].topology_type, kg)
    /\ pc' = "topology"
    /\ UNCHANGED <<kg, std, gen, task, rules, idx, cache, errors, warnings, stage>>

SpecInverter == InvInit /\ [][VerifyInverter]_vars

\* the half bridge inferred around the k-th named switch node
InvHalfBridge(k) ==
    _infer_half_bridge_on_vsw(_build_power_graph(gen, kg).mosfets,
                              _resolve_named_net(gen, "VSW_" \o ToString(k)))

\* enough MOSFETs and every named switch node in the snapshot
InvPrecondition ==
    LET phases == InvPhases(TASK_TEMPLATES[task].topology_type)
    IN /\ Len(_build_power_graph(gen, kg).mosfets) >= 2 * phases
       /\ \A k \in 1..phases : Truthy(_resolve_named_net(gen, "VSW_" \o ToString(k)))

\* a half bridge without error on every node, one bus and one ground for
\* all of them, and the bus an input supply
InvBridgesAsStated ==
    LET phases == InvPhases(TASK_TEMPLATES[task].topology_type)
    IN /\ \A k \in 1..phases : InvHalfBridge(k).found /\ InvHalfBridge(k).errors = <<>>
       /\ \A k \in 1..phases :
              /\ InvHalfBridge(k).hb.bus = InvHalfBridge(1).hb.bus
              /\ InvHalfBridge(k).hb.gnd = InvHalfBridge(1).hb.gnd
       /\ _is_input_supply_net(InvHalfBridge(1).hb.bus)

\* C23: for the 3-phase inverter (VSW_1..VSW_3) and the single-phase full
\* bridge (VSW_1, VSW_2), with enough MOSFETs and the named switch nodes
\* present, the verification of the power topology returns no error exactly
\* when a half bridge is inferred without error on every named node, all of
\* them have the same bus and the same ground, and the bus looks like an
\* input supply.
C23_InverterBridgesShareSupplyBus ==
    (pc = "topology" /\ InvPrecondition) => (result = <<>> <=> InvBridgesAsStated)

\* C23 witness: a 3-phase inverter verified without error, and so three
\* half bridges between VIN and one ground.
C23_Witness ==
    /\ pc = "topology" /\ task = 22 /\ InvPrecondition
    /\ result = <<>>
    /\ InvHalfBridge(3).hb.bus = "VIN"

------------------------------------------------------------------------------
(* run.py: load_standard_rules over the runs of the program.  `cache` is    *)
(* the rule cache directory, a function from the task numbers that have a   *)
(* file to the JSON text of the file; it outlives a run, while the KG is    *)
(* read again from its files at the start of every run.  `stage` lists the  *)
(* task numbers build_rules ran for, `idx` counts the calls.                *)

\* number of calls of load_standard_rules the model follows
MaxCalls == 3

CacheTasks == {1, 2}

\* the reference design of a task (topo_cache/p<task>_standard.json)
CacheReference(task_id) ==
    snapshot_from_circuit(
        Wire(RuleTemplate, CHOOSE w \in RefWirings : (w[<<2, 2>>] = <<>>) <=> (task_id = 2)))

\* json.dump and json.load of an endpoint field, a string or None: None is
\* null; and of the other fields of a rule (a string, two booleans, a number)
json_dump_value(v) == IF v = NULL THEN [json |-> "null"] ELSE [json |-> "value", value |-> v]

json_load_value(j) == IF j.json = "null" THEN NULL ELSE j.value

json_dump(rule_list) ==
    [k \in DOMAIN rule_list |->
        [f \in DOMAIN rule_list[k] |->
            IF f \in {"endpoint_a", "endpoint_b"}
            THEN [g \in DOMAIN rule_list[k][f] |-> json_dump_value(rule_list[k][f][g])]
            ELSE [json |-> "value", value |-> rule_list[k][f]]]]

json_load(text) ==
    [k \in DOMAIN text |->
        [f \in DOMAIN text[k] |->
            IF f \in {"endpoint_a", "endpoint_b"}
            THEN [g \in DOMAIN text[k][f] |-> json_load_value(text[k][f][g])]
            ELSE json_load_value(text[k][f])]]

CacheInit ==
    /\ kg \in {KGByNumber, KGEmpty}
    /\ std = NULL /\ gen = NULL
    /\ task = NoTask
    /\ pc = "started"
    /\ rules = <<>> /\ idx = 0 /\ cache = <<>> /\ errors = <<>> /\ warnings = <<>>
    /\ result = NULL /\ stage = <<>>

\* the rules returned, the files afterwards, and whether build_rules ran
load_standard_rules(task_id, std_snapshot, files) ==
    IF task_id \in DOMAIN files
    THEN [rules |-> json_load(files[task_id]), files |-> files, built |-> FALSE]
    ELSE [rules |-> build_rules(std_snapshot),
          files |-> [t \in DOMAIN files \cup {task_id} |->
                       IF t = task_id THEN json_dump(build_rules(std_snapshot)) ELSE files[t]],
          built |-> TRUE]

\* run_topology_verification up to the rules: the reference of the task is
\* augmented with the KG of the run and passed to load_standard_rules
LoadStandardRules ==
    /\ idx < MaxCalls
    /\ \E task_id \in CacheTasks :
           LET std_snapshot == augment_snapshot(CacheReference(task_id), kg)
               loaded == load_standard_rules(task_id, std_snapshot, cache)
           IN /\ task' = task_id
              /\ std' = std_snapshot
              /\ rules' = loaded.rules
              /\ cache' = loaded.files
              /\ stage' = IF loaded.built THEN Append(stage, task_id) ELSE stage
    /\ idx' = idx + 1
    /\ pc' = "loaded"
    /\ UNCHANGED <<kg, gen, errors, warnings, result>>

\* a new run of the program after the KG files were edited
RestartWithEditedKG ==
    /\ pc = "loaded"
    /\ kg' \in {KGByNumber, KGEmpty} \ {kg}
    /\ pc' = "started"
    /\ UNCHANGED <<std, gen, task, rules, idx, cache, errors, warnings, result, stage>>

CacheNext == LoadStandardRules \/ RestartWithEditedKG

SpecCache == CacheInit /\ [][CacheNext]_vars

\* C24: over any sequence of load_standard_rules calls build_rules runs at
\* most once for a task number, and the rules a call returns are build_rules
\* of the reference snapshot passed to that call.
C24_RulesExtractedOncePerReference ==
    /\ \A a, b \in DOMAIN stage : stage[a] = stage[b] => a = b
    /\ pc = "loaded" => rules = build_rules(std)

------------------------------------------------------------------------------
(* _path_exists of system_topology_checker.py on a film capacitor, an       *)
(* inductor and a resistor wired freely, asked from the first net of the    *)
(* pool to each net of the pool.                                            *)

\* number of nets the three passives choose from
TankNumNets == 3

TankNetNames == <<"SW", "PRI", "MID", "AUX">>
TankNetPool == Prefix(TankNetNames, TankNumNets)

TankTemplate ==
    << Part("C1", "C_film", TwoPins), Part("L1", "L", TwoPins), Part("R1", "R", TwoPins) >>

TankInit ==
    /\ kg = KGByNumber
    /\ std = NULL
    /\ task = NoTask
    /\ \E w \in Wirings(TankTemplate, NoFixed, TankNetPool) :
           gen = snapshot_from_circuit(Wire(TankTemplate, w))
    /\ pc = "extracted"
    /\ Idle

\* one tank-path query
TankQuery ==
    /\ pc = "extracted"
    /\ \E end_net \in TankNetPool, require_film \in BOOLEAN, require_inductor \in BOOLEAN :
           result' = [start_net |-> TankNetNames[1], end_net |-> end_net,
                      require_film |-> require_film, require_inductor |-> require_inductor,
                      found |-> _path_exists(gen, TankNetNames[1], end_net, PATH_PART_IDS,
                                             require_film, require_inductor)]
    /\ pc' = "queried"
    /\ UNCHANGED <<kg, std, gen, task, rules, idx, cache, errors, warnings, stage>>

SpecTank == TankInit /\ [][TankQuery]_vars

\* the passive parts of the snapshot that join two different nets
TankParts(snapshot) ==
    {c \in Range(snapshot.components) :
        /\ c.part_id \in PATH_PART_IDS
        /\ Truthy(PinNet(c, "1")) /\ Truthy(PinNet(c, "2"))
        /\ PinNet(c, "1") # PinNet(c, "2")}

\* a path from net to target over parts not in `used`, each taken once,
\* that still has to hold a film capacitor / an inductor
RECURSIVE TankTrail(_, _, _, _, _, _)
TankTrail(parts, net, target, used, need_film, need_inductor) ==
    \/ net = target /\ ~need_film /\ ~need_inductor
    \/ \E c \in parts \ used :
           /\ net \in {PinNet(c, "1"), PinNet(c, "2")}
           /\ TankTrail(parts,
                        IF PinNet(c, "1") = net THEN PinNet(c, "2") ELSE PinNet(c, "1"),
                        target, used \cup {c},
                        need_film /\ c.part_id # "C_film",
                        need_inductor /\ c.part_id \notin INDUCTOR_IDS)

\* C25: between two different nets _path_exists is true exactly when the
\* passive net graph (R, C, C_film, Inductor_power, L) has a path from start
\* to end that uses each component at most once and holds a C_film when
\* require_film is set and an inductor when require_inductor is set; from a
\* net to itself it is true exactly when neither is required.
C25_TankPathIsComponentSimplePath ==
    pc = "queried" =>
        result.found =
            IF result.start_net = result.end_net
            THEN ~result.require_film /\ ~result.require_inductor
            ELSE TankTrail(TankParts(gen), result.start_net, result.end_net, {},
                           result.require_film, result.require_inductor)

------------------------------------------------------------------------------
(* _path_exists of system_topology_checker.py step by step: one action per  *)
(* pass of its while loop.  `result` holds the arguments of the call, the   *)
(* local net_graph while the loop runs and, once the function returned,     *)
(* the value as `found`; `stage` is the deque q, `cache` the set seen,      *)
(* `idx` the number of states expanded so far.                              *)

\* number of nets the passives of the search choose from
BfsNumNets == 3

\* more expansions than any search over the pool needs (4 per net)
MaxExpansions == 20

BfsNetNames == <<"SW", "PRI", "MID", "AUX">>
BfsNetPool == Prefix(BfsNetNames, BfsNumNets)

\* the film capacitor has one end on the start net; the other five ends are
\* on nets of the pool, so the parts may lie in parallel or close a loop
BfsFixed == (<<1, 1>> :> <<"SW">>)

BfsInit ==
    /\ kg = KGByNumber
    /\ std = NULL
    /\ task = NoTask
    /\ \E w \in Wirings(TankTemplate, BfsFixed, BfsNetPool) :
           /\ \A sl \in DOMAIN w : w[sl] # <<>>
           /\ gen = snapshot_from_circuit(Wire(TankTemplate, w))
    /\ \E end_net \in BfsNetPool, require_film \in BOOLEAN, require_inductor \in BOOLEAN :
           result = [start_net |-> "SW", end_net |-> end_net, require_film |-> require_film,
                     require_inductor |-> require_inductor]
    /\ pc = "called"
    /\ rules = <<>> /\ idx = 0 /\ cache = {} /\ errors = <<>> /\ warnings = <<>>
    /\ stage = <<>>

\* net_graph.get(net, []): the (neighbour, part_id) entries in the order the
\* components add them
PassiveNeighbours(snapshot, allowed_parts, net) ==
    LET Ends(c) == IF c.part_id = "Inductor_power"
                   THEN Only({<<ind.terminal_a_net, ind.terminal_b_net>> :
                                ind \in {_extract_inductor_connections(c)}})
                   ELSE _extract_two_terminal_nets(c)
        Entry(c) == Only({IF /\ c.part_id \in allowed_parts
                             /\ Truthy(ends[1]) /\ Truthy(ends[2]) /\ ends[1] # ends[2]
                             /\ net \in {ends[1], ends[2]}
                          THEN << <<IF ends[1] = net THEN ends[2] ELSE ends[1], c.part_id>> >>
                          ELSE <<>> : ends \in {Ends(c)}})
    IN Flatten([k \in DOMAIN snapshot.components |-> Entry(snapshot.components[k])])

\* the states appended for the neighbours of an expanded state
NeighbourStates(neighbours, state) ==
    [k \in DOMAIN neighbours |->
        << neighbours[k][1],
           state[2] \/ neighbours[k][2] = "C_film",
           state[3] \/ neighbours[k][2] \in INDUCTOR_IDS >>]

\* the test that skips a state popped from the queue, never true
AlreadySeen_never(state, seen) == FALSE

\* the test that skips a state popped from the queue
AlreadySeen(state, seen) == state \in seen

\* the call frame once the function returned the value
Returned(value) ==
    [start_net |-> result.start_net, end_net |-> result.end_net,
     require_film |-> result.require_film, require_inductor |-> result.require_inductor,
     found |-> value]

\* the tests before the loop, and the first entry of the queue
PathEnter ==
    /\ pc = "called"
    /\ IF ~Truthy(result.start_net) \/ ~Truthy(result.end_net)
       THEN /\ result' = Returned(FALSE)
            /\ pc' = "returned"
            /\ stage' = stage
       ELSE IF result.start_net = result.end_net
       THEN /\ result' = Returned(~(result.require_film \/ result.require_inductor))
            /\ pc' = "returned"
            /\ stage' = stage
       ELSE /\ stage' = << <<result.start_net, FALSE, FALSE>> >>
            /\ pc' = "searching"
            /\ result' = [start_net |-> result.start_net, end_net |-> result.end_net,
                          require_film |-> result.require_film,
                          require_inductor |-> result.require_inductor,
                          net_graph |-> [net \in NetNamesOf(gen) |->
                                           PassiveNeighbours(gen, PATH_PART_IDS, net)]]
    /\ UNCHANGED <<kg, std, gen, task, rules, idx, cache, errors, warnings>>

\* one pass of the while loop
PathStep ==
    /\ pc = "searching"
    /\ stage # <<>>
    /\ idx < MaxExpansions
    /\ LET state == Head(stage)
           appended == NeighbourStates(
                           IF state[1] \in DOMAIN result.net_graph
                           THEN result.net_graph[state[1]] ELSE <<>>, state)
           hits == {k \in DOMAIN appended :
                      /\ appended[k][1] = result.end_net
                      /\ ~result.require_film \/ appended[k][2]
                      /\ ~result.require_inductor \/ appended[k][3]}
       IN IF AlreadySeen(state, cache)
          THEN /\ stage' = Tail(stage)
               /\ UNCHANGED <<cache, idx, result, pc>>
          ELSE /\ cache' = cache \cup {state}
               /\ idx' = idx + 1
               /\ IF hits # {}
                  THEN /\ stage' = Tail(stage)
                                     \o SubSeq(appended, 1,
                                               (CHOOSE k \in hits : \A h \in hits : k <= h) - 1)
                       /\ result' = Returned(TRUE)
                       /\ pc' = "returned"
                  ELSE /\ stage' = Tail(stage) \o appended
                       /\ UNCHANGED <<result, pc>>
    /\ UNCHANGED <<kg, std, gen, task, rules, errors, warnings>>

\* the queue ran empty
PathExit ==
    /\ pc = "searching"
    /\ stage = <<>>
    /\ result' = Returned(FALSE)
    /\ pc' = "returned"
    /\ UNCHANGED <<kg, std, gen, task, rules, idx, cache, errors, warnings, stage>>

BfsNext == PathEnter \/ PathStep \/ PathExit

\* the function runs on once called
SpecBfs == BfsInit /\ [][BfsNext]_vars /\ WF_vars(BfsNext)

\* the nets of the passive net graph and the two of the query
BfsNets == NetNamesOf(gen) \cup {result.start_net, result.end_net}

\* C26: the tank-path search returns on every finite passive net graph, with
\* cycles and parallel components too; every state (net, has_film,
\* has_inductor) is expanded at most once, so at most 4 states per net are
\* expanded before it returns.
C26_TankSearchTerminates ==
    /\ <>(pc = "returned")
    /\ [](/\ idx = Cardinality(cache)
          /\ \A net \in BfsNets : Cardinality({s \in cache : s[1] = net}) <= 4
          /\ \A s \in cache : s[1] \in BfsNets)

\* C26 witness: a search that returned after expanding a net in two states,
\* on a graph in which two parts lie in parallel.
C26_Witness ==
    /\ pc = "returned"
    /\ \E s, t \in cache : s[1] = t[1] /\ s # t
    /\ \E c, d \in TankParts(gen) :
           /\ c.ref # d.ref
           /\ {PinNet(c, "1"), PinNet(c, "2")} = {PinNet(d, "1"), PinNet(d, "2")}

------------------------------------------------------------------------------
(* check_interfaces on a low-side driver with two outputs, a MOSFET, a      *)
(* resistor and a diode: the second output and the ends of the two passives *)
(* are wired freely.                                                        *)

\* number of nets the gate network chooses from
DrvNumNets == 4

DrvNetNames == <<"DRV", "MID", "GATE", "AUX", "SRC">>
DrvNetPool == Prefix(DrvNetNames, DrvNumNets)

DrvTemplate ==
    << Part("U1", "UCC27511",
            << <<"1", "VDD">>, <<"2", "OUTH">>, <<"3", "OUTL">>, <<"4", "GND">> >>),
       Part("Q1", "BSC052N08NS5", MosfetPins),
       Part("R1", "R", TwoPins),
       Part("D1", "D", TwoPins) >>

\* the driver supplied, its first output on DRV; the MOSFET between VIN and
\* GND with its gate on GATE
DrvFixed ==
    (<<1, 1>> :> <<"VDD">>) @@ (<<1, 2>> :> <<"DRV">>) @@ (<<1, 4>> :> <<"GND">>) @@
    MosfetOn(2, "GND", "GATE", "VIN")

DrvInit ==
    /\ kg = KGByNumber
    /\ std = NULL
    /\ task = NoTask
    /\ \E w \in Wirings(DrvTemplate, DrvFixed, DrvNetPool) :
           gen = augment_snapshot(snapshot_from_circuit(Wire(DrvTemplate, w)), kg)
    /\ pc = "augmented"
    /\ Idle

CheckInterfaces ==
    /\ pc = "augmented"
    /\ result' = check_interfaces(gen, kg)
    /\ pc' = "interfaces"
    /\ UNCHANGED <<kg, std, gen, task, rules, idx, cache, errors, warnings, stage>>

SpecDrv == DrvInit /\ [][CheckInterfaces]_vars

\* two nets a resistor or a diode has pins on
JoinedByGatePart(snapshot, net_a, net_b) ==
    \E c \in Range(snapshot.components) :
        /\ c.part_id \in {"R", "D"}
        /\ \E p, q \in Range(c.pins) : p.net = net_a /\ q.net = net_b

\* the nets a chain of such parts leads to from the nets of `reached`
RECURSIVE GateChain(_, _)
GateChain(snapshot, reached) ==
    LET more == {n \in NetNamesOf(snapshot) :
                   \E m \in reached : JoinedByGatePart(snapshot, m, n)}
    IN IF more \subseteq reached THEN reached ELSE GateChain(snapshot, reached \cup more)

\* the gate nets of the MOSFETs of the circuits above
DrvGateNets == {net \in {_get_pin_net(gen.components[2], "4")} : Truthy(net) /\ net # "NC"}

NoGateError(ref, out_pin, out_net) ==
    ref \o ": Gate driver output (pin " \o out_pin \o ", net '" \o out_net
        \o "') does not connect to any MOSFET gate"

\* C27: for every gate driver output pin that is connected, check_interfaces
\* gives 'does not connect to any MOSFET gate' exactly when no MOSFET gate
\* net is reachable from the output net over nets joined by a resistor or a
\* diode, the output net itself included; the search ends on every
\* snapshot, loops of resistors and diodes included.
C27_GateReachedThroughResistorsAndDiodes ==
    pc = "interfaces" =>
        \A out_pin \in {"2", "3"} :
            LET out_net == _get_pin_net(gen.components[1], out_pin)
            IN ~_is_not_connected(out_net) =>
                  (NoGateError("U1", out_pin, out_net) \in Range(result)
                     <=> GateChain(gen, {out_net}) \cap DrvGateNets = {})

\* C27 witness: the second output reaches the gate through the resistor and
\* then the diode, the first output reaches nothing.
C27_Witness ==
    /\ pc = "interfaces"
    /\ _get_pin_net(gen.components[1], "3") = "MID"
    /\ JoinedByGatePart(gen, "MID", "AUX") /\ JoinedByGatePart(gen, "AUX", "GATE")
    /\ ~JoinedByGatePart(gen, "MID", "GATE")
    /\ NoGateError("U1", "3", "MID") \notin Range(result)
    /\ NoGateError("U1", "2", "DRV") \in Range(result)

------------------------------------------------------------------------------
(* check_driver_gate_links on a reference and a candidate built from the    *)
(* same parts: a gate driver, two MOSFETs, a resistor and a capacitor.      *)

\* number of nets the gates, the resistor and the capacitor choose from
LinkNumNets == 2

LinkNetNames == <<"DRV", "GATE", "AUX">>
LinkNetPool == Prefix(LinkNetNames, LinkNumNets)

LinkTemplate ==
    << Part("U1", "UCC5390E", << <<"5", "VCC2">>, <<"6", "OUT">>, <<"8", "VEE2">> >>),
       Part("Q1", "BSC052N08NS5", MosfetPins),
       Part("Q2", "BSC052N08NS5", MosfetPins),
       Part("R1", "R", TwoPins),
       Part("C1", "C", TwoPins) >>

\* the driver's output on DRV, its supply pins open; the sources of the
\* MOSFETs on GND, their drains open; R1 from DRV, C1 to GND.  Free: the two
\* gates, the second pin of R1 and the first pin of C1.
LinkFixed ==
    (<<1, 1>> :> <<>>) @@ (<<1, 2>> :> <<"DRV">>) @@ (<<1, 3>> :> <<>>) @@
    (<<2, 1>> :> <<"GND">>) @@ (<<2, 3>> :> <<>>) @@
    (<<3, 1>> :> <<"GND">>) @@ (<<3, 3>> :> <<>>) @@
    (<<4, 1>> :> <<"DRV">>) @@ (<<5, 2>> :> <<"GND">>)

LinkSnapshots ==
    {augment_snapshot(snapshot_from_circuit(Wire(LinkTemplate, w)), KGByNumber) :
        w \in Wirings(LinkTemplate, LinkFixed, LinkNetPool)}

LinkInit ==
    /\ kg = KGByNumber
    /\ task = NoTask
    /\ std \in LinkSnapshots
    /\ gen \in LinkSnapshots
    /\ pc = "done"
    /\ Idle

LinkMatches(std_links, gen_links) ==
    [std_links |-> std_links, gen_links |-> gen_links,
     matches |-> MatchFrom(std_links, gen_links, 1, {})]

\* the call of run_topology_verification; `result` keeps the links of both
\* snapshots and the match found for every link of the reference
CheckDriverGateLinks ==
    /\ pc = "done"
    /\ errors' = check_driver_gate_links(std, gen)
    /\ result' = LinkMatches(compute_driver_gate_links(std), compute_driver_gate_links(gen))
    /\ pc' = "links"
    /\ UNCHANGED <<kg, std, gen, task, rules, idx, cache, warnings, stage>>

SpecLinks == LinkInit /\ [][CheckDriverGateLinks]_vars

\* an assignment of a distinct compatible link of the candidate to every
\* link of the reference
LinkAssignments(std_links, gen_links) ==
    {f \in [DOMAIN std_links -> DOMAIN gen_links] :
        /\ \A a, b \in DOMAIN std_links : a # b => f[a] # f[b]
        /\ \A a \in DOMAIN std_links : LinksCompatible(std_links[a], gen_links[f[a]])}

\* C29: check_driver_gate_links uses each link of the candidate for at most
\* one link of the reference; it reports no "Missing driver->gate link" error
\* whenever every link of the reference can be assigned its own compatible
\* link of the candidate; comparing a snapshot with itself reports no error.
C29_NoMissingLinkWhenAssignable ==
    pc = "links" =>
        /\ \A a, b \in DOMAIN result.matches :
               (a # b /\ result.matches[a] # 0) => result.matches[a] # result.matches[b]
        /\ LinkAssignments(result.std_links, result.gen_links) # {} => errors = <<>>
        /\ std = gen => errors = <<>>

------------------------------------------------------------------------------
(* run_task_flow of run.py: the retry loop, the final artifacts and the     *)
(* recorded status, one action per step.  `result` holds the locals of the  *)
(* flow and the two arguments it reads, `stage` the checks run so far as    *)
(* records [attempt, check, ok], `task` the task id.  What the language     *)
(* model answers and what the checks of an attempt find is not decided by   *)
(* the flow: every outcome is possible.                                     *)

\* largest value of --num_of_retry
MaxRetry == 3

FlowTasks == {1, 17}

CheckOrder == <<"code_block", "syntax", "erc", "topology">>

\* max(1, args.num_of_retry)
LoopBound(num_of_retry) == IF num_of_retry > 1 THEN num_of_retry ELSE 1

FlowInit ==
    /\ kg = KGEmpty /\ std = NULL /\ gen = NULL
    /\ task \in FlowTasks
    /\ rules = <<>> /\ idx = 0 /\ cache = {} /\ errors = <<>> /\ warnings = <<>>
    /\ \E num_of_retry \in (-1)..MaxRetry, generate_artifacts \in BOOLEAN :
           result = [num_of_retry |-> num_of_retry, generate_artifacts |-> generate_artifacts,
                     attempt |-> 0, attempts_made |-> 0, passed |-> FALSE,
                     best_code |-> NULL, final_failure_reason |-> "",
                     artifact_ok |-> NULL, status |-> NULL]
    /\ stage = <<>>
    /\ pc = "loop"

FlowUnchanged == UNCHANGED <<kg, std, gen, task, rules, idx, cache, errors, warnings>>

Checked(check, ok) ==
    Append(stage, [attempt |-> result.attempts_made, check |-> check, ok |-> ok])

\* a failed check: the reason kept, the next iteration of the loop
Failed(reason) ==
    [result EXCEPT !.final_failure_reason = reason, !.attempt = @ + 1]

\* the head of the loop and get_response
NextAttempt ==
    /\ pc = "loop"
    /\ result.attempt < LoopBound(result.num_of_retry)
    /\ result' = [result EXCEPT !.attempts_made = @ + 1]
    /\ pc' = "generated"
    /\ UNCHANGED stage
    /\ FlowUnchanged

\* the loop has run out
LoopExhausted ==
    /\ pc = "loop"
    /\ result.attempt >= LoopBound(result.num_of_retry)
    /\ pc' = "after_loop"
    /\ UNCHANGED <<result, stage>>
    /\ FlowUnchanged

\* extract_code_block: the code of the response, None without a code block
ExtractCodeBlock ==
    /\ pc = "generated"
    /\ \E found \in BOOLEAN :
           /\ stage' = Checked("code_block", found)
           /\ IF found
              THEN /\ result' = [result EXCEPT
                                    !.best_code = "attempt_" \o ToString(result.attempts_made)]
                   /\ pc' = "extracted"
              ELSE /\ result' = Failed("No Python code block found in response.")
                   /\ pc' = "loop"
    /\ FlowUnchanged

CheckSyntax ==
    /\ pc = "extracted"
    /\ \E valid_syntax \in BOOLEAN :
           /\ stage' = Checked("syntax", valid_syntax)
           /\ IF valid_syntax
              THEN /\ pc' = "syntax_ok"
                   /\ UNCHANGED result
              ELSE /\ result' = Failed("syntax_msg")
                   /\ pc' = "loop"
    /\ FlowUnchanged

CheckErcAndRuntime ==
    /\ pc = "syntax_ok"
    /\ \E passed_erc \in BOOLEAN :
           /\ stage' = Checked("erc", passed_erc)
           /\ IF passed_erc
              THEN /\ pc' = "erc_ok"
                   /\ UNCHANGED result
              ELSE /\ result' = Failed("erc_error_msg")
                   /\ pc' = "loop"
    /\ FlowUnchanged

\* the attempt after the topology verification, with every attempt followed
\* by the next iteration
AfterTopology_no_break(flow, topo_ok) ==
    IF topo_ok
    THEN [result |-> [flow EXCEPT !.passed = TRUE, !.final_failure_reason = "",
                                  !.attempt = @ + 1],
          pc |-> "loop"]
    ELSE [result |-> [flow EXCEPT !.final_failure_reason = "topo_msg", !.attempt = @ + 1],
          pc |-> "loop"]

\* the attempt after the topology verification: a pass leaves the loop
AfterTopology(flow, topo_ok) ==
    IF topo_ok
    THEN [result |-> [flow EXCEPT !.passed = TRUE, !.final_failure_reason = ""],
          pc |-> "after_loop"]
    ELSE [result |-> [flow EXCEPT !.final_failure_reason = "topo_msg", !.attempt = @ + 1],
          pc |-> "loop"]

\* run_complex_task_verification for the complex tasks, else
\* run_topology_verification
VerifyTopology ==
    /\ pc = "erc_ok"
    /\ \E topo_ok \in BOOLEAN :
           /\ stage' = Checked("topology", topo_ok)
           /\ result' = AfterTopology(result, topo_ok).result
           /\ pc' = AfterTopology(result, topo_ok).pc
    /\ FlowUnchanged

ArtifactErrors == {"NETLIST: e", "SVG: e", "PCB: e"}

\* the pair generate_netlist_svg_artifacts returns for the errors of the
\* artifact script and its exit code
generate_netlist_svg_artifacts(artifact_errors, returncode) ==
    LET svg_errors == {e \in artifact_errors : StartsWith(e, "SVG:")}
        found == artifact_errors \ svg_errors
        non_svg_errors ==
            IF returncode # 0 /\ found = {} /\ svg_errors = {}
            THEN {"Artifact generation failed with non-zero exit."}
            ELSE found
    IN [ok |-> non_svg_errors = {}, non_svg_errors |-> non_svg_errors]

\* after the loop: the artifacts of the best code
FinalArtifacts ==
    /\ pc = "after_loop"
    /\ IF Truthy(result.best_code) /\ result.generate_artifacts
       THEN \E artifact_errors \in SUBSET ArtifactErrors, returncode \in {0, 1} :
                LET made == generate_netlist_svg_artifacts(artifact_errors, returncode)
                IN result' =
                       IF made.ok THEN [result EXCEPT !.artifact_ok = "ok"]
                       ELSE [result EXCEPT
                                !.artifact_ok = "failed",
                                !.final_failure_reason =
                                    IF Truthy(@) THEN @ \o "\nartifact_msg"
                                    ELSE "Artifact generation failed:\nartifact_msg",
                                !.passed = FALSE]
       ELSE UNCHANGED result
    /\ pc' = "artifacts"
    /\ UNCHANGED stage
    /\ FlowUnchanged

\* the status written to the stats file
RecordStatus ==
    /\ pc = "artifacts"
    /\ result' = [result EXCEPT
                     !.final_failure_reason =
                         IF ~Truthy(@) /\ ~result.passed THEN "Unknown failure" ELSE @,
                     !.status = IF result.passed THEN "PASS" ELSE "FAIL"]
    /\ pc' = "finished"
    /\ UNCHANGED stage
    /\ FlowUnchanged

FlowNext ==
    \/ NextAttempt
    \/ LoopExhausted
    \/ ExtractCodeBlock
    \/ CheckSyntax
    \/ CheckErcAndRuntime
    \/ VerifyTopology
    \/ FinalArtifacts
    \/ RecordStatus

SpecFlow == FlowInit /\ [][FlowNext]_vars

\* the checks recorded for one attempt, in the order they ran
ChecksOf(attempt) == SelectSeq(stage, LAMBDA c : c.attempt = attempt)

PassedAllFour(attempt) ==
    /\ Len(ChecksOf(attempt)) = 4
    /\ \A k \in 1..4 : ChecksOf(attempt)[k].ok

====
